---- MODULE Spec2Model ----
(***************************************************************************)
(* Fraud alerts pipeline (src/ml/fraudAlertsPipeline.py): the alert        *)
(* deduplicator, the multi-channel notifier, the heuristic fraud detectors *)
(* and the pipeline with its per-feed circuit breaker.                     *)
(*                                                                         *)
(* Time is a clock reading in whole minutes (datetime.now()).  Fractions   *)
(* (scores, confidences, ratios) are exact rationals <<num, den>>, den > 0.*)
(***************************************************************************)
EXTENDS Integers, Sequences, FiniteSets, TLC

VARIABLES
    now,                    \* the wall clock, in minutes
    recent_alerts,          \* AlertDeduplicator.recent_alerts: key -> time
    alert_counts,           \* AlertDeduplicator.alert_counts: key -> count
    last_call,              \* arguments and return value of the last should_alert call
    ncalls,                 \* number of should_alert calls made so far
    noncrit_at,             \* key -> time of the last admitted non-CRITICAL call
    crit_at,                \* key -> time of the last CRITICAL call
    config,                 \* PipelineConfig: the settings the components read
    action_calls,           \* the _get_recommended_actions calls made: arguments, result
    actions,                \* the dict named actions, as the last such call left it
    is_running,             \* FraudAlertsPipeline.is_running
    open_connections,       \* the connections initialize() opened and stop() has not closed
    notify_results,         \* the map returned by the last notify_all_channels call
    notify_raised,          \* whether that call ended by raising
    notified,               \* whether notify_all_channels has been called at all
    attempts,               \* the channel calls that call made, in order
    last_outcomes,          \* what each external endpoint answered during that call
    price_buffer,           \* FraudDetector.price_buffer: feed -> last prices
    volume_buffer,          \* FraudDetector.volume_buffer: feed -> last volumes
    timestamp_buffer,       \* FraudDetector.timestamp_buffer: feed -> last arrival times
    detect_calls,           \* feed -> number of detect_fraud invocations
    model,                  \* FraudDetector.model: the scorer, or None
    feature_extractor,      \* FraudDetector.feature_extractor, or None
    last_detect,            \* the last detect_fraud call: event, scorer answer, result
    circuit_breaker_active, \* FraudAlertsPipeline.circuit_breaker_active
    alerts_generated,       \* FraudAlertsPipeline.alerts_generated
    redis_alerts,           \* the store: alert:<id> -> alert
    redis_ttl,              \* the store: alert:<id> -> days the key is kept
    alerts_all,             \* the store: the alerts:all recency index
    published,              \* publish calls made on the circuit_breaker:* topics
    pending,                \* detections of the event in hand not yet processed
    cur_feed,               \* feed_name of the event in hand
    nmsgs,                  \* bus messages received so far
    last_msg,               \* the last bus message and whether it was skipped
    last_store,             \* what the store answered to the last _store_alert call
    faults                  \* exceptions the store and the bus have raised so far

dedupVars == <<recent_alerts, alert_counts, last_call, ncalls, noncrit_at, crit_at>>
notifyVars == <<notify_results, notify_raised, notified, attempts, last_outcomes>>
detectorVars == <<price_buffer, volume_buffer, timestamp_buffer, detect_calls, model,
                  feature_extractor, last_detect>>
storeVars == <<redis_alerts, redis_ttl, alerts_all, last_store>>
pipeVars == <<detectorVars, circuit_breaker_active, alerts_generated, storeVars,
              published, pending, cur_feed, nmsgs, last_msg, faults>>
actionVars == <<action_calls, actions>>
runVars == <<is_running, open_connections>>
vars == <<now, dedupVars, config, actionVars, runVars, notifyVars, pipeVars>>

----------------------------------------------------------------------------
(* Bounds of the model *)

MaxMinute == 5          \* minute ticks taken within one hour
MaxHours == 1           \* whole-hour jumps of the clock
MaxCalls == 4           \* should_alert calls made directly on a deduplicator
HistoryTail == 4        \* freely drawn last readings of a detector's history
MaxStores == 2          \* _send_alert calls made directly on a pipeline
MaxActionCalls == 2     \* _get_recommended_actions calls made directly
MaxInputs == 4          \* what the pipeline's surroundings do in one run: bus
                        \* messages, deactivate_circuit_breaker calls, minutes
                        \* passing, exceptions of the store and the bus

(* Program constants *)

alert_cooldown_minutes == 5
MinutesPerHour == 60

None == "None"

Feeds == {"ETH/USD", "BTC/USD"}
UNKNOWN == "UNKNOWN"        \* feed_name of a message that carries none

CRITICAL == "CRITICAL"
HIGH == "HIGH"
MEDIUM == "MEDIUM"
LOW == "LOW"
INFO == "INFO"
AlertSeverity == {CRITICAL, HIGH, MEDIUM, LOW, INFO}

PRICE_MANIPULATION == "PRICE_MANIPULATION"
FLASH_LOAN_ATTACK == "FLASH_LOAN_ATTACK"
ORACLE_SPOOFING == "ORACLE_SPOOFING"
VOLUME_ANOMALY == "VOLUME_ANOMALY"
LATENCY_SPIKE == "LATENCY_SPIKE"
SOURCE_DEGRADATION == "SOURCE_DEGRADATION"
SANDWICH_ATTACK == "SANDWICH_ATTACK"
FraudType == {PRICE_MANIPULATION, FLASH_LOAN_ATTACK, ORACLE_SPOOFING,
              "COORDINATED_ATTACK", VOLUME_ANOMALY, LATENCY_SPIKE,
              SOURCE_DEGRADATION, "REPLAY_ATTACK", SANDWICH_ATTACK,
              "MEV_EXTRACTION"}

----------------------------------------------------------------------------
(* AlertDeduplicator *)

\* key = f"{feed_name}:{fraud_type}"
DedupKey(feed_name, fraud_type) == <<feed_name, fraud_type>>

\* d[k] = v on a dict
DictPut(d, k, v) == [x \in (DOMAIN d) \cup {k} |-> IF x = k THEN v ELSE d[x]]

\* d.get(k, default)
DictGet(d, k, default) == IF k \in DOMAIN d THEN d[k] ELSE default

\* the cooldown check of should_alert: the key was alerted and
\* elapsed = (now - recent_alerts[key]) minutes < cooldown_minutes
InCooldown(ra, key, t) ==
    /\ key \in DOMAIN ra
    /\ (t - ra[key]) < alert_cooldown_minutes

\* _increment_count
IncrementCount(ac, key) == DictPut(ac, key, DictGet(ac, key, 0) + 1)

ShouldAlert_NoCooldown(ra, ac, key, severity, t) ==
    IF severity = CRITICAL
    THEN [result |-> TRUE, recent_alerts |-> DictPut(ra, key, t), alert_counts |-> ac]
    ELSE [result |-> TRUE, recent_alerts |-> DictPut(ra, key, t),
          alert_counts |-> IncrementCount(ac, key)]

ShouldAlert_CriticalNoStamp(ra, ac, key, severity, t) ==
    IF severity = CRITICAL
    THEN [result |-> TRUE, recent_alerts |-> ra, alert_counts |-> ac]
    ELSE IF InCooldown(ra, key, t)
    THEN [result |-> FALSE, recent_alerts |-> ra, alert_counts |-> ac]
    ELSE [result |-> TRUE, recent_alerts |-> DictPut(ra, key, t),
          alert_counts |-> IncrementCount(ac, key)]

ShouldAlert_StampOnSuppress(ra, ac, key, severity, t) ==
    IF severity = CRITICAL
    THEN [result |-> TRUE, recent_alerts |-> DictPut(ra, key, t), alert_counts |-> ac]
    ELSE IF InCooldown(ra, key, t)
    THEN [result |-> FALSE, recent_alerts |-> DictPut(ra, key, t), alert_counts |-> ac]
    ELSE [result |-> TRUE, recent_alerts |-> DictPut(ra, key, t),
          alert_counts |-> IncrementCount(ac, key)]

\* should_alert(feed_name, fraud_type, severity) called at clock reading t on
\* the deduplicator state (ra, ac): the return value and the state it leaves
ShouldAlert(ra, ac, key, severity, t) ==
    IF severity = CRITICAL
    THEN [result |-> TRUE, recent_alerts |-> DictPut(ra, key, t), alert_counts |-> ac]
    ELSE IF InCooldown(ra, key, t)
    THEN [result |-> FALSE, recent_alerts |-> ra, alert_counts |-> ac]
    ELSE [result |-> TRUE, recent_alerts |-> DictPut(ra, key, t),
          alert_counts |-> IncrementCount(ac, key)]

CleanupOldEntries_Minutes(ra, max_age_hours, t) ==
    LET cutoff == t - max_age_hours
    IN  [k \in {x \in DOMAIN ra : ra[x] > cutoff} |-> ra[k]]

\* cleanup_old_entries(max_age_hours) at clock reading t
CleanupOldEntries(ra, max_age_hours, t) ==
    LET cutoff == t - max_age_hours * MinutesPerHour
    IN  [k \in {x \in DOMAIN ra : ra[x] > cutoff} |-> ra[k]]

\* one should_alert call and the record kept of it
CallShouldAlert(key, severity) ==
    LET r == ShouldAlert(recent_alerts, alert_counts, key, severity, now)
    IN  /\ recent_alerts' = r.recent_alerts
        /\ alert_counts' = r.alert_counts
        /\ last_call' = [key |-> key, severity |-> severity, at |-> now,
                         result |-> r.result]
        /\ ncalls' = ncalls + 1
        /\ noncrit_at' = IF r.result /\ severity # CRITICAL
                         THEN DictPut(noncrit_at, key, now) ELSE noncrit_at
        /\ crit_at' = IF severity = CRITICAL
                      THEN DictPut(crit_at, key, now) ELSE crit_at

EmptyDict == [x \in {} |-> 0]

DedupInit ==
    /\ recent_alerts = EmptyDict
    /\ alert_counts = EmptyDict
    /\ last_call = EmptyDict
    /\ ncalls = 0
    /\ noncrit_at = EmptyDict
    /\ crit_at = EmptyDict

----------------------------------------------------------------------------
(* PipelineConfig *)

IsSet(v) == v # None

\* the PipelineConfig() defaults: no HTTP channel configured
retention_days == 30

DefaultConfig ==
    [webhook_url |-> None, telegram_bot_token |-> None, telegram_chat_id |-> None,
     slack_webhook_url |-> None, enable_auto_circuit_break |-> TRUE,
     retention_days |-> retention_days]

\* the channel settings main() can read from the environment
ChannelConfigs ==
    [webhook_url : {None, "url"}, telegram_bot_token : {None, "token"},
     telegram_chat_id : {None, "chat"}, slack_webhook_url : {None, "url"},
     enable_auto_circuit_break : {TRUE}, retention_days : {retention_days}]

----------------------------------------------------------------------------
(* AlertNotifier *)

WEBHOOK == "webhook"
TELEGRAM == "telegram"
SLACK == "slack"
REDIS == "redis"
HttpChannels == {WEBHOOK, TELEGRAM, SLACK}
Channels == HttpChannels \cup {REDIS}

\* what a channel's endpoint does with one call: an HTTP status, or the call
\* raises (connection error, no session) or runs into its 10 s timeout
TIMEOUT == "timeout"
ERROR == "error"
Exceptions == {TIMEOUT, ERROR}
HttpStatuses == {200, 204, 500}
Responds(status) == [exc |-> None, status |-> status]
Raises(e) == [exc |-> e, status |-> 0]
HttpOutcomes == {Responds(s) : s \in HttpStatuses} \cup {Raises(e) : e \in Exceptions}
RedisOutcomes == {Responds(1), Raises(ERROR)}     \* publish returns a receiver count

\* A channel call gives [value, raised]: the boolean it returns, or that the
\* exception left the method.

SendWebhook_NoTry(outcome) ==
    IF outcome.exc \in Exceptions
    THEN [value |-> FALSE, raised |-> TRUE]
    ELSE [value |-> (outcome.status = 200), raised |-> FALSE]

\* _send_webhook: try: post(...) -> status == 200; except Exception: False
SendWebhook(outcome) ==
    IF outcome.exc \in Exceptions
    THEN [value |-> FALSE, raised |-> FALSE]
    ELSE [value |-> (outcome.status = 200), raised |-> FALSE]

\* _send_telegram
SendTelegram(outcome) ==
    IF outcome.exc \in Exceptions
    THEN [value |-> FALSE, raised |-> FALSE]
    ELSE [value |-> (outcome.status = 200), raised |-> FALSE]

\* _send_slack
SendSlack(outcome) ==
    IF outcome.exc \in Exceptions
    THEN [value |-> FALSE, raised |-> FALSE]
    ELSE [value |-> (outcome.status = 200), raised |-> FALSE]

\* _publish_redis: try: publish('fraud:alerts', alert.to_json()); True
\* except Exception: False
PublishRedis(outcome) ==
    IF outcome.exc \in Exceptions
    THEN [value |-> FALSE, raised |-> FALSE]
    ELSE [value |-> TRUE, raised |-> FALSE]

Send(ch, outcome) ==
    CASE ch = WEBHOOK -> SendWebhook(outcome)
      [] ch = TELEGRAM -> SendTelegram(outcome)
      [] ch = SLACK -> SendSlack(outcome)
      [] ch = REDIS -> PublishRedis(outcome)

NotifyGuard_RedisOnlyIfAlone(cfg, ch) ==
    CASE ch = WEBHOOK -> IsSet(cfg.webhook_url)
      [] ch = TELEGRAM -> IsSet(cfg.telegram_bot_token) /\ IsSet(cfg.telegram_chat_id)
      [] ch = SLACK -> IsSet(cfg.slack_webhook_url)
      [] ch = REDIS -> ~IsSet(cfg.webhook_url)

\* the condition under which notify_all_channels calls a channel
NotifyGuard(cfg, ch) ==
    CASE ch = WEBHOOK -> IsSet(cfg.webhook_url)
      [] ch = TELEGRAM -> IsSet(cfg.telegram_bot_token) /\ IsSet(cfg.telegram_chat_id)
      [] ch = SLACK -> IsSet(cfg.slack_webhook_url)
      [] ch = REDIS -> TRUE

\* the order in which notify_all_channels goes through the channels
ChannelOrder == <<WEBHOOK, TELEGRAM, SLACK, REDIS>>

\* ClientTimeout(total=10) of the HTTP channels, in seconds
TimeoutSeconds == 10

\* how long the awaited call of a channel takes: a timeout takes the whole
\* allowance, any other answer is taken as immediate
Duration(outcome) == IF outcome.exc = TIMEOUT THEN TimeoutSeconds ELSE 0

\* notify_all_channels from its i-th channel on: acc is [results, attempts,
\* raised, elapsed]; each channel call is awaited before the next one is made,
\* so a call starts when the calls before it are over; an exception leaving a
\* channel call ends the whole call
RECURSIVE NotifyFrom(_, _, _, _, _)
NotifyFrom(cfg, alert_id, outcomes, i, acc) ==
    IF i > Len(ChannelOrder) \/ acc.raised THEN acc
    ELSE LET ch == ChannelOrder[i] IN
         IF ~NotifyGuard(cfg, ch)
         THEN NotifyFrom(cfg, alert_id, outcomes, i + 1, acc)
         ELSE LET r == Send(ch, outcomes[ch])
                  finish == acc.elapsed + Duration(outcomes[ch])
                  att == Append(acc.attempts,
                                [channel |-> ch, alert_id |-> alert_id,
                                 start |-> acc.elapsed, finish |-> finish])
              IN  NotifyFrom(cfg, alert_id, outcomes, i + 1,
                      [results |-> IF r.raised THEN acc.results
                                   ELSE DictPut(acc.results, ch, r.value),
                       attempts |-> att,
                       raised |-> r.raised,
                       elapsed |-> finish])

\* notify_all_channels(alert)
NotifyAllChannels(cfg, alert_id, outcomes) ==
    NotifyFrom(cfg, alert_id, outcomes, 1,
               [results |-> EmptyDict, attempts |-> <<>>, raised |-> FALSE,
                elapsed |-> 0])

\* an endpoint that is not called answers nothing
NoCall == [exc |-> None, status |-> 0]

\* the answers the endpoints can give during one notify_all_channels call
OutcomeMaps(cfg) ==
    {o \in [webhook : HttpOutcomes \cup {NoCall}, telegram : HttpOutcomes \cup {NoCall},
            slack : HttpOutcomes \cup {NoCall}, redis : RedisOutcomes] :
        \A ch \in HttpChannels : (o[ch] = NoCall) <=> ~NotifyGuard(cfg, ch)}

\* one notify_all_channels call and the record kept of it
CallNotify(alert_id, outcomes) ==
    LET r == NotifyAllChannels(config, alert_id, outcomes)
    IN  /\ notify_results' = r.results
        /\ notify_raised' = r.raised
        /\ notified' = TRUE
        /\ attempts' = r.attempts
        /\ last_outcomes' = outcomes

NotifyInit ==
    /\ notify_results = EmptyDict
    /\ notify_raised = FALSE
    /\ notified = FALSE
    /\ attempts = <<>>
    /\ last_outcomes = EmptyDict

----------------------------------------------------------------------------
(* Exact fractions: <<n, d>> with d > 0 stands for n / d *)

Abs(x) == IF x < 0 THEN -x ELSE x
Rat(n, d) == IF d < 0 THEN <<-n, -d>> ELSE <<n, d>>
RatGT(a, b) == a[1] * b[2] > b[1] * a[2]
RatLT(a, b) == a[1] * b[2] < b[1] * a[2]
RatMul(a, b) == <<a[1] * b[1], a[2] * b[2]>>
RatDiv(a, b) == Rat(a[1] * b[2], a[2] * b[1])
RatSub(a, b) == <<a[1] * b[2] - b[1] * a[2], a[2] * b[2]>>
\* min(a, b) of Python: b when b < a, else a
RatMin(a, b) == IF RatLT(b, a) THEN b ELSE a
RatInt(n) == <<n, 1>>

RECURSIVE SeqSum(_)
SeqSum(q) == IF q = <<>> THEN 0 ELSE Head(q) + SeqSum(Tail(q))

\* q[-n:] for 0 < n <= len(q)
LastN(q, n) == SubSeq(q, Len(q) - n + 1, Len(q))

----------------------------------------------------------------------------
(* FraudDetector *)

BufferMaxLen == 100

\* FraudDetector.thresholds
price_change_threshold == <<15, 100>>
volume_spike_threshold == <<5, 1>>
latency_spike_threshold == 1000
source_minimum == 3

DequeAppend_DropNewest(q, x) ==
    IF Len(q) >= BufferMaxLen THEN q ELSE Append(q, x)

\* deque(maxlen=100).append(x)
DequeAppend(q, x) ==
    LET a == Append(q, x) IN IF Len(a) > BufferMaxLen THEN Tail(a) ELSE a

Detection(fraud_type, severity, confidence, score, potential_loss) ==
    [fraud_type |-> fraud_type, severity |-> severity, confidence |-> confidence,
     score |-> score, potential_loss |-> potential_loss]

\* _estimate_loss: change * volume * 0.1
EstimateLoss(change, volume) == RatMul(RatMul(change, RatInt(volume)), <<1, 10>>)

\* _is_flash_loan_pattern
IsFlashLoanPattern(prices) ==
    IF Len(prices) < 4 THEN FALSE
    ELSE LET recent == LastN(prices, 4)
             change1 == IF recent[1] # 0
                        THEN Rat(Abs(recent[2] - recent[1]), recent[1]) ELSE <<0, 1>>
             change2 == IF recent[3] # 0
                        THEN Rat(Abs(recent[4] - recent[3]), recent[3]) ELSE <<0, 1>>
         IN  RatGT(change1, <<1, 10>>) /\ RatGT(change2, <<1, 10>>)

DetectPriceManipulation_AlwaysCritical(prices, data) ==
    IF Len(prices) < 2 THEN <<>>
    ELSE LET current_price == prices[Len(prices)]
             previous_price == prices[Len(prices) - 1]
         IN  IF previous_price = 0 THEN <<>>
             ELSE LET change == Rat(Abs(current_price - previous_price), previous_price)
                  IN  IF ~RatGT(change, price_change_threshold) THEN <<>>
                      ELSE <<Detection(PRICE_MANIPULATION,
                                 CRITICAL,
                                 RatMin(RatDiv(change, price_change_threshold), <<1, 1>>),
                                 change,
                                 EstimateLoss(change, DictGet(data, "volume", 0)))>>
                           \o (IF IsFlashLoanPattern(prices)
                               THEN <<Detection(FLASH_LOAN_ATTACK, CRITICAL, <<85, 100>>,
                                          <<9, 10>>,
                                          RatMul(EstimateLoss(change,
                                                     DictGet(data, "volume", 0)),
                                                 <<2, 1>>))>>
                               ELSE <<>>)

\* _detect_price_manipulation
DetectPriceManipulation(prices, data) ==
    IF Len(prices) < 2 THEN <<>>
    ELSE LET current_price == prices[Len(prices)]
             previous_price == prices[Len(prices) - 1]
         IN  IF previous_price = 0 THEN <<>>
             ELSE LET change == Rat(Abs(current_price - previous_price), previous_price)
                  IN  IF ~RatGT(change, price_change_threshold) THEN <<>>
                      ELSE <<Detection(PRICE_MANIPULATION,
                                 IF RatGT(change, <<1, 2>>) THEN CRITICAL ELSE HIGH,
                                 RatMin(RatDiv(change, price_change_threshold), <<1, 1>>),
                                 change,
                                 EstimateLoss(change, DictGet(data, "volume", 0)))>>
                           \o (IF IsFlashLoanPattern(prices)
                               THEN <<Detection(FLASH_LOAN_ATTACK, CRITICAL, <<85, 100>>,
                                          <<9, 10>>,
                                          RatMul(EstimateLoss(change,
                                                     DictGet(data, "volume", 0)),
                                                 <<2, 1>>))>>
                               ELSE <<>>)

DetectVolumeAnomaly_MeanWithCurrent(volumes, data) ==
    IF Len(volumes) < 10 THEN <<>>
    ELSE LET avg_volume == <<SeqSum(volumes), Len(volumes)>>
             current_volume == volumes[Len(volumes)]
         IN  IF avg_volume[1] = 0 THEN <<>>
             ELSE LET spike_ratio == RatDiv(RatInt(current_volume), avg_volume)
                  IN  IF ~RatGT(spike_ratio, volume_spike_threshold) THEN <<>>
                      ELSE <<Detection(VOLUME_ANOMALY,
                                 IF RatGT(spike_ratio, <<10, 1>>) THEN HIGH ELSE MEDIUM,
                                 RatMin(RatDiv(spike_ratio,
                                               RatMul(volume_spike_threshold, <<2, 1>>)),
                                        <<1, 1>>),
                                 RatDiv(spike_ratio, <<10, 1>>),
                                 <<current_volume, 100>>)>>

DetectVolumeAnomaly_NoClamp(volumes, data) ==
    IF Len(volumes) < 10 THEN <<>>
    ELSE LET previous == SubSeq(volumes, 1, Len(volumes) - 1)
             avg_volume == <<SeqSum(previous), Len(previous)>>
             current_volume == volumes[Len(volumes)]
         IN  IF avg_volume[1] = 0 THEN <<>>
             ELSE LET spike_ratio == RatDiv(RatInt(current_volume), avg_volume)
                  IN  IF ~RatGT(spike_ratio, volume_spike_threshold) THEN <<>>
                      ELSE <<Detection(VOLUME_ANOMALY,
                                 IF RatGT(spike_ratio, <<10, 1>>) THEN HIGH ELSE MEDIUM,
                                 RatDiv(spike_ratio,
                                        RatMul(volume_spike_threshold, <<2, 1>>)),
                                 RatDiv(spike_ratio, <<10, 1>>),
                                 <<current_volume, 100>>)>>

\* _detect_volume_anomaly: avg_volume = mean(volumes[:-1])
DetectVolumeAnomaly(volumes, data) ==
    IF Len(volumes) < 10 THEN <<>>
    ELSE LET previous == SubSeq(volumes, 1, Len(volumes) - 1)
             avg_volume == <<SeqSum(previous), Len(previous)>>
             current_volume == volumes[Len(volumes)]
         IN  IF avg_volume[1] = 0 THEN <<>>
             ELSE LET spike_ratio == RatDiv(RatInt(current_volume), avg_volume)
                  IN  IF ~RatGT(spike_ratio, volume_spike_threshold) THEN <<>>
                      ELSE <<Detection(VOLUME_ANOMALY,
                                 IF RatGT(spike_ratio, <<10, 1>>) THEN HIGH ELSE MEDIUM,
                                 RatMin(RatDiv(spike_ratio,
                                               RatMul(volume_spike_threshold, <<2, 1>>)),
                                        <<1, 1>>),
                                 RatDiv(spike_ratio, <<10, 1>>),
                                 <<current_volume, 100>>)>>

\* _detect_latency_spike: latency = data.get('latency_ms', 0)
DetectLatencySpike(data) ==
    LET latency == DictGet(data, "latency_ms", 0)
    IN  IF ~(latency > latency_spike_threshold) THEN <<>>
        ELSE <<Detection(LATENCY_SPIKE,
                   IF latency > 2000 THEN HIGH ELSE MEDIUM,
                   <<9, 10>>,
                   <<latency, latency_spike_threshold>>,
                   <<0, 1>>)>>

DetectSourceDegradation_CriticalBelowOne(data) ==
    LET source_count == DictGet(data, "source_count", 0)
    IN  IF ~(source_count < source_minimum) THEN <<>>
        ELSE <<Detection(SOURCE_DEGRADATION,
                   IF source_count < 1 THEN CRITICAL ELSE HIGH,
                   <<95, 100>>,
                   RatSub(<<1, 1>>, <<source_count, source_minimum>>),
                   <<10000 * (source_minimum - source_count), 1>>)>>

\* _detect_source_degradation: source_count = data.get('source_count', 0)
DetectSourceDegradation(data) ==
    LET source_count == DictGet(data, "source_count", 0)
    IN  IF ~(source_count < source_minimum) THEN <<>>
        ELSE <<Detection(SOURCE_DEGRADATION,
                   IF source_count <= 1 THEN CRITICAL ELSE HIGH,
                   <<95, 100>>,
                   RatSub(<<1, 1>>, <<source_count, source_minimum>>),
                   <<10000 * (source_minimum - source_count), 1>>)>>

\* _detect_sandwich_attack raises ZeroDivisionError when the bump test passes
\* against a price of 0 five points back
SandwichRaises(prices) ==
    /\ Len(prices) >= 5
    /\ LET recent == LastN(prices, 5)
       IN  recent[1] = 0 /\ recent[3] > 0

\* _detect_sandwich_attack: recent[2] > recent[0] * 1.02 and
\* abs(recent[4] - recent[0]) / recent[0] < 0.01
DetectSandwichAttack(prices, data) ==
    IF Len(prices) < 3 THEN <<>>
    ELSE IF Len(prices) < 5 THEN <<>>
    ELSE LET recent == LastN(prices, 5)
         IN  IF /\ recent[3] * 100 > recent[1] * 102
                /\ recent[1] # 0
                /\ RatLT(Rat(Abs(recent[5] - recent[1]), recent[1]), <<1, 100>>)
             THEN <<Detection(SANDWICH_ATTACK, HIGH, <<75, 100>>, <<8, 10>>,
                        <<recent[1] * 2, 100>>)>>
             ELSE <<>>

\* FraudDetector() as the pipeline builds it: no model_path, so self.model is None
DetectorModel == None

\* what _load_model can leave in self.model: a scorer with score_samples, or
\* an object without it
SCORER == "scorer"
PLAIN == "plain"
EXTRACTOR == "extractor"
Models == {None, SCORER, PLAIN}
Extractors == {None, EXTRACTOR}
\* the (model, feature_extractor) pairs taken up: nothing loaded, a scorer
\* saved without its extractor, and both loaded with either kind of model
LoadedStates == {<<None, None>>, <<SCORER, None>>, <<SCORER, EXTRACTOR>>,
                 <<PLAIN, EXTRACTOR>>}

anomaly_score_threshold == <<85, 100>>
MlMinPoints == 50
MlLossScale == 50000

\* the answer of the feature extractor and the scorer to one call: one of
\* them raises, the extractor gives no features, or the scorer gives a score
MlScores == {<<-1, 2>>, <<9, 10>>, <<3, 2>>}
NoScore == [exc |-> None, empty |-> TRUE, score |-> <<0, 1>>]
MlOutcomes ==
    {NoScore, [exc |-> ERROR, empty |-> FALSE, score |-> <<0, 1>>]}
    \cup {[exc |-> None, empty |-> FALSE, score |-> sc] : sc \in MlScores}

\* max(a, b) of Python: b when b > a, else a
RatMax(a, b) == IF RatGT(b, a) THEN b ELSE a

DetectWithMl_NoTry(mdl, fx, prices, ml) ==
    IF mdl = None \/ fx = None THEN [raised |-> FALSE, detections |-> <<>>]
    ELSE IF Len(prices) < MlMinPoints THEN [raised |-> FALSE, detections |-> <<>>]
    ELSE [raised |-> ml.exc # None, detections |-> <<>>]

\* _detect_with_ml: everything after the two guards runs inside try/except
\* Exception, which logs and returns what was collected
DetectWithMl(mdl, fx, prices, ml) ==
    IF mdl = None \/ fx = None THEN [raised |-> FALSE, detections |-> <<>>]
    ELSE IF Len(prices) < MlMinPoints THEN [raised |-> FALSE, detections |-> <<>>]
    ELSE IF ml.exc # None THEN [raised |-> FALSE, detections |-> <<>>]
    ELSE IF ml.empty THEN [raised |-> FALSE, detections |-> <<>>]
    ELSE LET score == IF mdl = SCORER THEN ml.score ELSE <<1, 2>>
             normalized_score == RatMin(RatMax(score, <<0, 1>>), <<1, 1>>)
         IN  [raised |-> FALSE,
              detections |->
                IF ~RatGT(normalized_score, anomaly_score_threshold) THEN <<>>
                ELSE <<Detection(ORACLE_SPOOFING,
                           IF RatGT(normalized_score, <<95, 100>>) THEN CRITICAL
                           ELSE IF RatGT(normalized_score, <<9, 10>>) THEN HIGH
                           ELSE MEDIUM,
                           normalized_score,
                           normalized_score,
                           RatMul(normalized_score, RatInt(MlLossScale)))>>]

\* the five heuristic detectors in the order detect_fraud runs them
Heuristics(prices, volumes, data) ==
    DetectPriceManipulation(prices, data)
    \o DetectVolumeAnomaly(volumes, data)
    \o DetectLatencySpike(data)
    \o DetectSourceDegradation(data)
    \o DetectSandwichAttack(prices, data)

\* whether detect_fraud gets as far as calling the scorer
MlRuns(mdl, fx, prices) ==
    /\ ~SandwichRaises(prices)
    /\ mdl # None /\ fx # None
    /\ Len(prices) >= MlMinPoints

\* detect_fraud(feed_data) at clock reading t on a detector with model mdl,
\* extractor fx and buffers (pb, vb, tb), the scorer answering ml: the buffers
\* it leaves, whether it raised, and the detections it returns
DetectFraud(mdl, fx, pb, vb, tb, data, ml, t) ==
    LET feed_name == DictGet(data, "feed_name", UNKNOWN)
        prices == DequeAppend(DictGet(pb, feed_name, <<>>), DictGet(data, "price", 0))
        volumes == DequeAppend(DictGet(vb, feed_name, <<>>), DictGet(data, "volume", 0))
        timestamps == DequeAppend(DictGet(tb, feed_name, <<>>),
                                  DictGet(data, "timestamp", t))
        mlr == IF mdl # None THEN DetectWithMl(mdl, fx, prices, ml)
               ELSE [raised |-> FALSE, detections |-> <<>>]
        raised == SandwichRaises(prices) \/ mlr.raised
    IN  [price_buffer |-> DictPut(pb, feed_name, prices),
         volume_buffer |-> DictPut(vb, feed_name, volumes),
         timestamp_buffer |-> DictPut(tb, feed_name, timestamps),
         raised |-> raised,
         detections |->
            IF raised THEN <<>>
            ELSE Heuristics(prices, volumes, data) \o mlr.detections]

\* one detect_fraud call on the detector and the record kept of it
CallDetectFraud(data, ml) ==
    LET r == DetectFraud(model, feature_extractor, price_buffer, volume_buffer,
                         timestamp_buffer, data, ml, now)
        feed_name == DictGet(data, "feed_name", UNKNOWN)
    IN  /\ price_buffer' = r.price_buffer
        /\ volume_buffer' = r.volume_buffer
        /\ timestamp_buffer' = r.timestamp_buffer
        /\ detect_calls' = DictPut(detect_calls, feed_name,
                                   DictGet(detect_calls, feed_name, 0) + 1)
        /\ last_detect' = [data |-> data, ml |-> ml, raised |-> r.raised,
                           detections |-> r.detections]
        /\ UNCHANGED <<model, feature_extractor>>

DetectorLoad_Loaded ==
    /\ model = SCORER
    /\ feature_extractor = EXTRACTOR

\* FraudDetector.__init__ without a model_path: _load_model is not called
DetectorLoad ==
    /\ model = DetectorModel
    /\ feature_extractor = None

\* FraudDetector.__init__ without a model_path
DetectorInit ==
    /\ price_buffer = EmptyDict
    /\ volume_buffer = EmptyDict
    /\ timestamp_buffer = EmptyDict
    /\ detect_calls = [f \in Feeds |-> 0]
    /\ DetectorLoad
    /\ last_detect = EmptyDict

----------------------------------------------------------------------------
(* FraudAlertsPipeline *)

circuit_break_threshold == <<95, 100>>
AlertsAllMax == 10000

ACTIVATED == "circuit_breaker:activated"
DEACTIVATED == "circuit_breaker:deactivated"
PRICE_UPDATE == "price:update"
ANOMALY_DETECTED == "anomaly:detected"

\* _generate_alert_id: the digest of "feed_name:fraud_type:<clock>", taken as
\* one-to-one on what it digests
GenerateAlertId(feed_name, fraud_type, t) == <<feed_name, fraud_type, t>>

\* _create_alert: the id digests one clock reading, timestamp is a later one
CreateAlert(feed_name, fraud_type, severity, confidence, score, loss, t_id, t_ts) ==
    [id |-> GenerateAlertId(feed_name, fraud_type, t_id),
     timestamp |-> t_ts,
     feed_name |-> feed_name,
     fraud_type |-> fraud_type,
     severity |-> severity,
     confidence |-> confidence,
     anomaly_score |-> score,
     potential_loss_usd |-> loss]

\* the dict literal of _get_recommended_actions
ActionsTable ==
    (PRICE_MANIPULATION :> <<"Halt oracle updates temporarily",
                             "Cross-reference with other sources",
                             "Review recent oracle submissions",
                             "Check for coordinated attack patterns">>)
    @@ (FLASH_LOAN_ATTACK :> <<"CRITICAL: Pause affected contracts immediately",
                               "Enable TWAP-based pricing",
                               "Increase oracle heartbeat frequency",
                               "Review transaction sequencing">>)
    @@ (ORACLE_SPOOFING :> <<"Verify oracle source authenticity",
                             "Check ZK proof validity",
                             "Slash suspicious oracles",
                             "Enable stricter deviation checks">>)
    @@ (SOURCE_DEGRADATION :> <<"Increase minimum source threshold",
                                "Activate backup oracles",
                                "Monitor for oracle censorship",
                                "Enable emergency mode">>)
    @@ (SANDWICH_ATTACK :> <<"Review MEV protection measures",
                             "Implement private transaction pool",
                             "Add slippage protection",
                             "Monitor mempool activity">>)

DefaultActions == <<"Monitor closely", "Investigate further">>
EMERGENCY == "EMERGENCY: Activate circuit breaker NOW"

BuildActions_Once(kept) == IF DOMAIN kept = {} THEN ActionsTable ELSE kept

\* the dict a call works on: the literal is evaluated anew at every call,
\* whatever the call before left in its own dict
BuildActions(kept) == ActionsTable

\* _get_recommended_actions on the dict acts: base_actions is the list held by
\* the dict (or a new default list), and insert(0, ...) changes that list in
\* place
GetRecommendedActions(acts, fraud_type, severity) ==
    LET known == fraud_type \in DOMAIN acts
        base_actions == IF known THEN acts[fraud_type] ELSE DefaultActions
        result == IF severity = CRITICAL THEN <<EMERGENCY>> \o base_actions
                  ELSE base_actions
    IN  [result |-> result,
         actions |-> IF known THEN [acts EXCEPT ![fraud_type] = result] ELSE acts]

ActionsInit ==
    /\ action_calls = <<>>
    /\ actions = EmptyDict

SESSION == "notifier.session"
BUS == "redis_client"
DATABASE == "db_connection"
Connections == {SESSION, BUS, DATABASE}

\* the pipeline after initialize() and inside the loop of start()
Started ==
    /\ is_running = TRUE
    /\ open_connections = Connections

\* stop(): clear is_running, close the notifier session, the redis client and
\* the database connection, one after the other, waiting for nothing else
Stop ==
    [is_running |-> FALSE, open_connections |-> {}]

\* the answers of the store to one _store_alert: all three commands done, or
\* the connection failing at the first of them
StoreOutcomes == {Responds(1), Raises(ERROR)}

\* a store command raising after status of the three commands were done
RaisesAfter(done) == [exc |-> ERROR, status |-> done]
StoreCommands == 3
PartialStoreOutcomes == {Responds(1)} \cup {RaisesAfter(k) : k \in 0..(StoreCommands - 1)}

\* ltrim key 0 stop: the entries at the indexes 0..stop are kept
LTrim(l, stop) == SubSeq(l, 1, IF Len(l) < stop + 1 THEN Len(l) ELSE stop + 1)

StoreAlert_NoTrim(ra, rt, aa, alert, days, outcome) ==
    LET done == IF outcome.exc = None THEN StoreCommands ELSE outcome.status
    IN  [redis_alerts |-> IF done >= 1 THEN DictPut(ra, alert.id, alert) ELSE ra,
         redis_ttl |-> IF done >= 1 THEN DictPut(rt, alert.id, days) ELSE rt,
         alerts_all |-> IF done >= 2 THEN <<alert.id>> \o aa ELSE aa]

\* _store_alert: setex alert:<id>, lpush alerts:all, ltrim alerts:all 0 9999;
\* an exception of a command skips the commands after it, is logged and
\* swallowed
StoreAlert(ra, rt, aa, alert, days, outcome) ==
    LET done == IF outcome.exc = None THEN StoreCommands ELSE outcome.status
        pushed == <<alert.id>> \o aa
    IN  [redis_alerts |-> IF done >= 1 THEN DictPut(ra, alert.id, alert) ELSE ra,
         redis_ttl |-> IF done >= 1 THEN DictPut(rt, alert.id, days) ELSE rt,
         alerts_all |-> IF done >= 3 THEN LTrim(pushed, AlertsAllMax - 1)
                        ELSE IF done = 2 THEN pushed
                        ELSE aa]

SendAlert_AppendIfStored(alert, store_outcome, notify_outcomes) ==
    LET st == StoreAlert(redis_alerts, redis_ttl, alerts_all, alert,
                         config.retention_days, store_outcome)
    IN  /\ alerts_generated' = IF store_outcome.exc = None
                               THEN Append(alerts_generated, alert)
                               ELSE alerts_generated
        /\ redis_alerts' = st.redis_alerts
        /\ redis_ttl' = st.redis_ttl
        /\ alerts_all' = st.alerts_all
        /\ last_store' = store_outcome
        /\ CallNotify(alert.id, notify_outcomes)

SendAlert_NotifyIfStored(alert, store_outcome, notify_outcomes) ==
    LET st == StoreAlert(redis_alerts, redis_ttl, alerts_all, alert,
                         config.retention_days, store_outcome)
    IN  /\ alerts_generated' = Append(alerts_generated, alert)
        /\ redis_alerts' = st.redis_alerts
        /\ redis_ttl' = st.redis_ttl
        /\ alerts_all' = st.alerts_all
        /\ last_store' = store_outcome
        /\ IF store_outcome.exc = None
           THEN CallNotify(alert.id, notify_outcomes)
           ELSE UNCHANGED notifyVars

\* _send_alert: append to alerts_generated, store, notify
SendAlert(alert, store_outcome, notify_outcomes) ==
    LET st == StoreAlert(redis_alerts, redis_ttl, alerts_all, alert,
                         config.retention_days, store_outcome)
    IN  /\ alerts_generated' = Append(alerts_generated, alert)
        /\ redis_alerts' = st.redis_alerts
        /\ redis_ttl' = st.redis_ttl
        /\ alerts_all' = st.alerts_all
        /\ last_store' = store_outcome
        /\ CallNotify(alert.id, notify_outcomes)

\* the early return of _handle_price_update
SkipsFeed_Never(cb, feed_name) == FALSE

SkipsFeed(cb, feed_name) == feed_name \in cb

BreakerTrips_OnConfidence(cfg, detection) ==
    /\ cfg.enable_auto_circuit_break
    /\ RatGT(detection.confidence, circuit_break_threshold)

\* the circuit-breaker check of _process_detection
BreakerTrips(cfg, detection) ==
    /\ cfg.enable_auto_circuit_break
    /\ RatGT(detection.score, circuit_break_threshold)

ActivateCircuitBreaker_WrongFeed(cb, pub, feed_name, alert, t, outcome) ==
    [circuit_breaker_active |-> cb \cup {feed_name},
     published |-> Append(pub, [topic |-> ACTIVATED, feed_name |-> alert.fraud_type,
                                alert_id |-> alert.id, timestamp |-> t,
                                delivered |-> outcome.exc = None]),
     raised |-> outcome.exc # None]

ActivateCircuitBreaker_PublishFirst(cb, pub, feed_name, alert, t, outcome) ==
    [circuit_breaker_active |-> IF outcome.exc # None THEN cb ELSE cb \cup {feed_name},
     published |-> Append(pub, [topic |-> ACTIVATED, feed_name |-> feed_name,
                                alert_id |-> alert.id, timestamp |-> t,
                                delivered |-> outcome.exc = None]),
     raised |-> outcome.exc # None]

\* _activate_circuit_breaker: add the feed, then publish; an exception of the
\* publish leaves the method
ActivateCircuitBreaker(cb, pub, feed_name, alert, t, outcome) ==
    [circuit_breaker_active |-> cb \cup {feed_name},
     published |-> Append(pub, [topic |-> ACTIVATED, feed_name |-> feed_name,
                                alert_id |-> alert.id, timestamp |-> t,
                                delivered |-> outcome.exc = None]),
     raised |-> outcome.exc # None]

DeactivateCircuitBreaker_ClearsAll(cb, pub, feed_name, t, outcome) ==
    [circuit_breaker_active |-> {},
     published |-> Append(pub, [topic |-> DEACTIVATED, feed_name |-> feed_name,
                                timestamp |-> t,
                                delivered |-> outcome.exc = None])]

\* deactivate_circuit_breaker: discard the feed, then publish
DeactivateCircuitBreaker(cb, pub, feed_name, t, outcome) ==
    [circuit_breaker_active |-> cb \ {feed_name},
     published |-> Append(pub, [topic |-> DEACTIVATED, feed_name |-> feed_name,
                                timestamp |-> t,
                                delivered |-> outcome.exc = None])]

\* FraudAlertsPipeline.__init__, the detector apart
PipelineInit ==
    /\ circuit_breaker_active = {}
    /\ alerts_generated = <<>>
    /\ redis_alerts = EmptyDict
    /\ redis_ttl = EmptyDict
    /\ alerts_all = <<>>
    /\ last_store = NoCall
    /\ published = <<>>
    /\ pending = <<>>
    /\ cur_feed = None
    /\ nmsgs = 0
    /\ last_msg = EmptyDict
    /\ faults = 0

PipeInit == DetectorInit /\ PipelineInit

\* get_statistics
GetStatistics ==
    [total_alerts |-> Len(alerts_generated),
     active_circuit_breakers |-> circuit_breaker_active,
     deduplicator_stats |-> alert_counts]

Deactivations ==
    Cardinality({i \in DOMAIN published : published[i].topic = DEACTIVATED})

\* the inputs the surroundings have given so far
InputsUsed == nmsgs + Deactivations + now + faults

----------------------------------------------------------------------------
(* The clock *)

Tick ==
    /\ (now % MinutesPerHour) < MaxMinute
    /\ now' = now + 1
    /\ UNCHANGED <<dedupVars, config, actionVars, runVars, notifyVars, pipeVars>>

TickHour ==
    /\ now < MaxHours * MinutesPerHour
    /\ now' = now + MinutesPerHour
    /\ UNCHANGED <<dedupVars, config, actionVars, runVars, notifyVars, pipeVars>>

\* time passes while the pipeline runs
TickPipeline ==
    /\ InputsUsed < MaxInputs
    /\ now' = now + 1
    /\ UNCHANGED <<dedupVars, config, actionVars, runVars, notifyVars, pipeVars>>

----------------------------------------------------------------------------
(* The deduplicator on its own: calls of its public methods *)

DedupFeeds == {"ETH/USD"}
DedupTypes == {PRICE_MANIPULATION, LATENCY_SPIKE}
DedupSeverities == {CRITICAL, MEDIUM}
MaxAgeHours == {1, 24}

DedupShouldAlert ==
    /\ ncalls < MaxCalls
    /\ \E f \in DedupFeeds, ft \in DedupTypes, s \in DedupSeverities :
           CallShouldAlert(DedupKey(f, ft), s)
    /\ UNCHANGED <<now, config, actionVars, runVars, notifyVars, pipeVars>>

DedupCleanup ==
    /\ \E h \in MaxAgeHours :
           recent_alerts' = CleanupOldEntries(recent_alerts, h, now)
    /\ UNCHANGED <<now, alert_counts, last_call, ncalls, noncrit_at, crit_at,
                   config, actionVars, runVars, notifyVars, pipeVars>>

InitDedup == now = 0 /\ DedupInit /\ config = DefaultConfig /\ ActionsInit /\ Started /\ NotifyInit /\ PipeInit

NextDedup == DedupShouldAlert \/ DedupCleanup \/ Tick \/ TickHour

SpecDedup == InitDedup /\ [][NextDedup]_vars

----------------------------------------------------------------------------
(* The notifier on its own: notify_all_channels under every channel        *)
(* configuration and every answer of the endpoints                         *)

SampleAlertIds == {"a1", "a2"}

NotifierNotify ==
    /\ \E id \in SampleAlertIds, o \in OutcomeMaps(config) : CallNotify(id, o)
    /\ UNCHANGED <<now, dedupVars, config, actionVars, runVars, pipeVars>>

InitNotify == now = 0 /\ DedupInit /\ config \in ChannelConfigs /\ ActionsInit /\ Started /\ NotifyInit /\ PipeInit

NextNotify == NotifierNotify

SpecNotify == InitNotify /\ [][NextNotify]_vars

----------------------------------------------------------------------------
(* The detector on its own: detect_fraud called on a FraudDetector that    *)
(* has a history of readings for one feed and may have a scorer loaded     *)

DetectFeed == "ETH/USD"

\* a history: quiet readings of 100 followed by freely drawn last readings;
\* with the event added, the lengths reach the 5 points of the sandwich
\* detector, the 10 of the volume detector, the 50 of the scorer and the
\* capacity of the buffers; the readings arrived a minute apart
QuietRuns == {0, 5, 45, BufferMaxLen - HistoryTail}
TailPrices == {0, 100, 112}
QuietVolumes == {0, 100}

Repeat(x, n) == [i \in 1..n |-> x]

PriceHistories ==
    {Repeat(100, n) \o t : n \in QuietRuns, t \in [1..HistoryTail -> TailPrices]}

\* the events: prices that repeat, move by a fifth and double; volumes of 1, 8
\* and 12 times the quiet volume; source counts and latencies on both sides of
\* the thresholds
DetectEvents ==
    {[feed_name |-> DetectFeed, price |-> p, volume |-> v,
      source_count |-> q[1], latency_ms |-> q[2]] :
        p \in {100, 120, 200}, v \in {100, 800, 1200},
        q \in {<<3, 1000>>, <<2, 1500>>, <<1, 2500>>}}

\* the answers the scorer can give to a detect_fraud call for this event
ScorerAnswers(data) ==
    LET prices == DequeAppend(DictGet(price_buffer, DictGet(data, "feed_name", UNKNOWN),
                                      <<>>),
                              DictGet(data, "price", 0))
    IN  IF MlRuns(model, feature_extractor, prices) THEN MlOutcomes ELSE {NoScore}

\* one detect_fraud call on the drawn detector
DetectorDetect ==
    /\ DOMAIN last_detect = {}
    /\ \E data \in DetectEvents : \E ml \in ScorerAnswers(data) :
           CallDetectFraud(data, ml)
    /\ UNCHANGED <<now, dedupVars, config, actionVars, runVars, notifyVars, circuit_breaker_active,
                   alerts_generated, storeVars, published, pending, cur_feed,
                   nmsgs, last_msg, faults>>

InitDetect ==
    /\ now = 0 /\ DedupInit /\ config = DefaultConfig /\ ActionsInit /\ Started /\ NotifyInit /\ PipelineInit
    /\ \E l \in LoadedStates, h \in PriceHistories, v \in QuietVolumes :
          \* the full buffers are taken up on a detector without a scorer
          /\ Len(h) >= BufferMaxLen => l = <<None, None>>
          /\ model = l[1] /\ feature_extractor = l[2]
          /\ price_buffer = [f \in {DetectFeed} |-> h]
          /\ volume_buffer = [f \in {DetectFeed} |-> Repeat(v, Len(h))]
          /\ timestamp_buffer = [f \in {DetectFeed} |-> [i \in 1..Len(h) |-> i - Len(h)]]
    /\ detect_calls = [f \in Feeds |-> 0]
    /\ last_detect = EmptyDict

NextDetect == DetectorDetect

SpecDetect == InitDetect /\ [][NextDetect]_vars

----------------------------------------------------------------------------
(* The store alone: _send_alert calls on a pipeline whose alerts:all index  *)
(* is empty, one short of its cap, or at its cap                            *)

\* the index of n earlier alerts, newest first, whose alert:<id> keys have
\* expired
EarlierIds(n) == [i \in 1..n |-> GenerateAlertId(DetectFeed, LATENCY_SPIKE, -i)]

IndexLengths == {0, AlertsAllMax - 1, AlertsAllMax}

RetentionConfigs == {[DefaultConfig EXCEPT !.retention_days = d] : d \in {retention_days, 7}}

StoredTypes == {PRICE_MANIPULATION, LATENCY_SPIKE}

InitStore ==
    /\ now = 0 /\ DedupInit /\ ActionsInit /\ Started /\ NotifyInit /\ DetectorInit
    /\ config \in RetentionConfigs
    /\ circuit_breaker_active = {}
    /\ alerts_generated = <<>>
    /\ redis_alerts = EmptyDict
    /\ redis_ttl = EmptyDict
    /\ \E n \in IndexLengths : alerts_all = EarlierIds(n)
    /\ last_store = NoCall
    /\ published = <<>>
    /\ pending = <<>>
    /\ cur_feed = None
    /\ nmsgs = 0
    /\ last_msg = EmptyDict
    /\ faults = 0

\* one _send_alert call for an alert made by _create_alert
PipelineSendAlert ==
    /\ Len(alerts_generated) < MaxStores
    /\ \E ft \in StoredTypes, t \in {now, now + 1}, so \in PartialStoreOutcomes,
          no \in OutcomeMaps(config) :
          /\ now' = t
          /\ SendAlert(CreateAlert(DetectFeed, ft, HIGH, <<9, 10>>, <<1, 2>>, <<0, 1>>,
                                   t, t),
                       so, no)
    /\ UNCHANGED <<dedupVars, config, actionVars, runVars, detectorVars, circuit_breaker_active,
                   published, pending, cur_feed, nmsgs, last_msg, faults>>

NextStore == PipelineSendAlert

SpecStore == InitStore /\ [][NextStore]_vars

----------------------------------------------------------------------------
(* The pipeline: one bus consumer handling a message at a time, the        *)
(* operator's deactivate_circuit_breaker calls, and the clock              *)

\* the price:update payloads: a quiet reading, a doubled price, and a slow
\* oracle that has lost every source
EventShapes ==
    {[price |-> 100, volume |-> 1000, source_count |-> 5, latency_ms |-> 100],
     [price |-> 200, volume |-> 1000, source_count |-> 5, latency_ms |-> 100],
     [price |-> 100, volume |-> 1000, source_count |-> 0, latency_ms |-> 1500]}
FeedEvents ==
    {[feed_name |-> f, price |-> e.price, volume |-> e.volume,
      source_count |-> e.source_count, latency_ms |-> e.latency_ms] :
        f \in Feeds, e \in EventShapes}
ExternalScores == {<<99, 100>>}

\* _create_alert reads the clock twice: once for the id (_generate_alert_id),
\* once for the timestamp field; the clock may have moved on in between
ClockReadings == {now, now + 1}

\* the exceptions among the answers of one step
Raised(outcomes) == Cardinality({i \in DOMAIN outcomes : outcomes[i].exc # None})

\* the fields of a FeedEvent
FeedEventFields == {"feed_name", "price", "volume", "source_count", "latency_ms"}

\* the message carries every field of a FeedEvent
IsComplete(data) == FeedEventFields \subseteq DOMAIN data

HandlePriceUpdate_DetectFirst(data) ==
    /\ nmsgs' = nmsgs + 1
    /\ LET feed_name == DictGet(data, "feed_name", UNKNOWN)
       IN  /\ CallDetectFraud(data, NoScore)
           /\ cur_feed' = feed_name
           /\ IF SkipsFeed(circuit_breaker_active, feed_name)
              THEN /\ last_msg' = [channel |-> PRICE_UPDATE, feed_name |-> feed_name,
                                   skipped |-> TRUE, complete |-> IsComplete(data)]
                   /\ pending' = <<>>
              ELSE /\ pending' = last_detect'.detections
                   /\ last_msg' = [channel |-> PRICE_UPDATE, feed_name |-> feed_name,
                                   skipped |-> FALSE, complete |-> IsComplete(data)]
    /\ UNCHANGED <<now, dedupVars, config, actionVars, runVars, notifyVars, circuit_breaker_active,
                   alerts_generated, storeVars, published, faults>>

\* _handle_price_update up to the loop over the detections
HandlePriceUpdate(data) ==
    /\ nmsgs' = nmsgs + 1
    /\ LET feed_name == DictGet(data, "feed_name", UNKNOWN)
       IN  IF SkipsFeed(circuit_breaker_active, feed_name)
           THEN /\ last_msg' = [channel |-> PRICE_UPDATE, feed_name |-> feed_name,
                                skipped |-> TRUE, complete |-> IsComplete(data)]
                /\ UNCHANGED <<detectorVars, pending, cur_feed>>
           ELSE /\ \E ml \in ScorerAnswers(data) : CallDetectFraud(data, ml)
                /\ pending' = last_detect'.detections
                /\ cur_feed' = feed_name
                /\ last_msg' = [channel |-> PRICE_UPDATE, feed_name |-> feed_name,
                                skipped |-> FALSE, complete |-> IsComplete(data)]
    /\ UNCHANGED <<now, dedupVars, config, actionVars, runVars, notifyVars, circuit_breaker_active,
                   alerts_generated, storeVars, published, faults>>

ReceivePriceUpdate_Concurrent ==
    /\ is_running
    /\ InputsUsed < MaxInputs
    /\ \E data \in FeedEvents : HandlePriceUpdate(data)

\* a price:update message is taken from the bus: the loop of start() awaits
\* _process_message for one message before it takes the next
ReceivePriceUpdate ==
    /\ is_running
    /\ pending = <<>>
    /\ InputsUsed < MaxInputs
    /\ \E data \in FeedEvents : HandlePriceUpdate(data)

ProcessDetection_BreakerFirst ==
    /\ pending # <<>>
    /\ LET detection == Head(pending)
           key == DedupKey(cur_feed, detection.fraud_type)
           admitted == ShouldAlert(recent_alerts, alert_counts, key,
                                   detection.severity, now).result
           trips == BreakerTrips(config, detection)
       IN  /\ CallShouldAlert(key, detection.severity)
           /\ IF ~admitted
              THEN /\ pending' = Tail(pending)
                   /\ UNCHANGED <<now, notifyVars, circuit_breaker_active,
                                  alerts_generated, storeVars, published, faults>>
              ELSE \E t_ts \in ClockReadings, so \in StoreOutcomes,
                      no \in OutcomeMaps(config),
                      bo \in (IF trips THEN RedisOutcomes ELSE {NoCall}) :
                      LET alert == CreateAlert(cur_feed, detection.fraud_type,
                                       detection.severity, detection.confidence,
                                       detection.score, detection.potential_loss,
                                       now, t_ts)
                          act == ActivateCircuitBreaker(circuit_breaker_active,
                                     published, cur_feed, alert, t_ts, bo)
                          used == (t_ts - now) + Raised(<<so, no[REDIS], bo>>)
                      IN  /\ InputsUsed + used <= MaxInputs
                          /\ now' = t_ts
                          /\ faults' = faults + Raised(<<so, no[REDIS], bo>>)
                          /\ IF trips
                             THEN /\ circuit_breaker_active' = act.circuit_breaker_active
                                  /\ published' = act.published
                                  /\ pending' = IF act.raised THEN <<>>
                                                ELSE Tail(pending)
                             ELSE /\ UNCHANGED <<circuit_breaker_active, published>>
                                  /\ pending' = Tail(pending)
                          /\ IF trips /\ act.raised
                             THEN UNCHANGED <<alerts_generated, storeVars, notifyVars>>
                             ELSE SendAlert(alert, so, no)
    /\ UNCHANGED <<config, actionVars, runVars, detectorVars, cur_feed, nmsgs, last_msg>>

\* _process_detection for the next detection of the event in hand: the
\* deduplicator, then _create_alert and _send_alert, then the breaker
ProcessDetection ==
    /\ pending # <<>>
    /\ LET detection == Head(pending)
           key == DedupKey(cur_feed, detection.fraud_type)
           admitted == ShouldAlert(recent_alerts, alert_counts, key,
                                   detection.severity, now).result
           trips == BreakerTrips(config, detection)
       IN  /\ CallShouldAlert(key, detection.severity)
           /\ IF ~admitted
              THEN /\ pending' = Tail(pending)
                   /\ UNCHANGED <<now, notifyVars, circuit_breaker_active,
                                  alerts_generated, storeVars, published, faults>>
              ELSE \E t_ts \in ClockReadings, so \in StoreOutcomes,
                      no \in OutcomeMaps(config),
                      bo \in (IF trips THEN RedisOutcomes ELSE {NoCall}) :
                      LET alert == CreateAlert(cur_feed, detection.fraud_type,
                                       detection.severity, detection.confidence,
                                       detection.score, detection.potential_loss,
                                       now, t_ts)
                          act == ActivateCircuitBreaker(circuit_breaker_active,
                                     published, cur_feed, alert, t_ts, bo)
                          used == (t_ts - now) + Raised(<<so, no[REDIS], bo>>)
                      IN  /\ InputsUsed + used <= MaxInputs
                          /\ now' = t_ts
                          /\ faults' = faults + Raised(<<so, no[REDIS], bo>>)
                          /\ SendAlert(alert, so, no)
                          /\ IF trips
                             THEN /\ circuit_breaker_active' = act.circuit_breaker_active
                                  /\ published' = act.published
                                  /\ pending' = IF act.raised THEN <<>>
                                                ELSE Tail(pending)
                             ELSE /\ UNCHANGED <<circuit_breaker_active, published>>
                                  /\ pending' = Tail(pending)
    /\ UNCHANGED <<config, actionVars, runVars, detectorVars, cur_feed, nmsgs, last_msg>>

ReceiveExternalAnomaly_TripsBreaker ==
    /\ is_running
    /\ pending = <<>>
    /\ InputsUsed < MaxInputs
    /\ \E f \in Feeds, sc \in ExternalScores, t_ts \in ClockReadings,
          so \in StoreOutcomes, no \in OutcomeMaps(config) :
          /\ InputsUsed + 1 + (t_ts - now) + Raised(<<so, no[REDIS]>>) <= MaxInputs
          /\ now' = t_ts
          /\ faults' = faults + Raised(<<so, no[REDIS]>>)
          /\ SendAlert(CreateAlert(f, ORACLE_SPOOFING, HIGH, <<8, 10>>, sc,
                                   <<0, 1>>, now, t_ts), so, no)
          /\ last_msg' = [channel |-> ANOMALY_DETECTED, feed_name |-> f,
                          skipped |-> FALSE, complete |-> TRUE]
          /\ circuit_breaker_active' =
                IF RatGT(sc, circuit_break_threshold)
                THEN circuit_breaker_active \cup {f} ELSE circuit_breaker_active
    /\ nmsgs' = nmsgs + 1
    /\ UNCHANGED <<dedupVars, config, actionVars, runVars, detectorVars,
                   published, pending, cur_feed>>

\* an anomaly:detected message is taken from the bus: _handle_external_anomaly
ReceiveExternalAnomaly ==
    /\ is_running
    /\ pending = <<>>
    /\ InputsUsed < MaxInputs
    /\ \E f \in Feeds, sc \in ExternalScores, t_ts \in ClockReadings,
          so \in StoreOutcomes, no \in OutcomeMaps(config) :
          /\ InputsUsed + 1 + (t_ts - now) + Raised(<<so, no[REDIS]>>) <= MaxInputs
          /\ now' = t_ts
          /\ faults' = faults + Raised(<<so, no[REDIS]>>)
          /\ SendAlert(CreateAlert(f, ORACLE_SPOOFING, HIGH, <<8, 10>>, sc,
                                   <<0, 1>>, now, t_ts), so, no)
          /\ last_msg' = [channel |-> ANOMALY_DETECTED, feed_name |-> f,
                          skipped |-> FALSE, complete |-> TRUE]
    /\ nmsgs' = nmsgs + 1
    /\ UNCHANGED <<dedupVars, config, actionVars, runVars, detectorVars, circuit_breaker_active,
                   published, pending, cur_feed>>

\* the operator calls deactivate_circuit_breaker(feed_name)
Deactivate ==
    /\ InputsUsed < MaxInputs
    /\ \E f \in Feeds, bo \in RedisOutcomes :
          LET r == DeactivateCircuitBreaker(circuit_breaker_active, published,
                                            f, now, bo)
          IN  /\ InputsUsed + 1 + Raised(<<bo>>) <= MaxInputs
              /\ faults' = faults + Raised(<<bo>>)
              /\ circuit_breaker_active' = r.circuit_breaker_active
              /\ published' = r.published
    /\ UNCHANGED <<now, dedupVars, config, actionVars, runVars, notifyVars, detectorVars,
                   alerts_generated, storeVars, pending, cur_feed, nmsgs, last_msg>>

\* a quiet reading with one of its fields left out
IncompleteEvents ==
    LET e == [feed_name |-> "ETH/USD", price |-> 100, volume |-> 1000,
              source_count |-> 5, latency_ms |-> 100]
    IN  {[k \in FeedEventFields \ {missing} |-> e[k]] : missing \in FeedEventFields}

\* a price:update message that lacks a field is taken from the bus: json.loads
\* accepts it and _handle_price_update reads the fields with their defaults
ReceiveIncompleteUpdate ==
    /\ is_running
    /\ pending = <<>>
    /\ InputsUsed < MaxInputs
    /\ \E data \in IncompleteEvents : HandlePriceUpdate(data)

\* a message that is not JSON is taken from the bus: json.loads raises and
\* _process_message logs the error
ReceiveInvalidJson ==
    /\ is_running
    /\ pending = <<>>
    /\ InputsUsed < MaxInputs
    /\ nmsgs' = nmsgs + 1
    /\ last_msg' = [channel |-> PRICE_UPDATE, feed_name |-> None,
                    skipped |-> FALSE, complete |-> FALSE]
    /\ UNCHANGED <<now, dedupVars, config, actionVars, runVars, notifyVars, detectorVars,
                   circuit_breaker_active, alerts_generated, storeVars,
                   published, pending, cur_feed, faults>>

PipelineConfigs ==
    {[DefaultConfig EXCEPT !.enable_auto_circuit_break = b] : b \in BOOLEAN}

Init == now = 0 /\ DedupInit /\ config \in PipelineConfigs /\ ActionsInit /\ Started /\ NotifyInit /\ PipeInit

Next ==
    \/ ReceivePriceUpdate
    \/ ProcessDetection
    \/ ReceiveExternalAnomaly
    \/ Deactivate
    \/ TickPipeline

Spec == Init /\ [][Next]_vars

\* the pipeline fed with malformed and incomplete messages
NextValidation ==
    \/ ReceiveIncompleteUpdate
    \/ ReceiveInvalidJson
    \/ ProcessDetection
    \/ TickPipeline

SpecValidation == Init /\ [][NextValidation]_vars

----------------------------------------------------------------------------
(* The pipeline after a quiet run on one feed: its history is long enough  *)
(* for _detect_with_ml to get past its length guard                        *)

WarmRuns == {MlMinPoints - 2, MlMinPoints - 1}

InitWarm ==
    /\ now = 0 /\ DedupInit /\ config \in PipelineConfigs
    /\ ActionsInit /\ Started /\ NotifyInit /\ PipelineInit
    /\ DetectorLoad
    /\ \E n \in WarmRuns :
          /\ price_buffer = [f \in {DetectFeed} |-> Repeat(100, n)]
          /\ volume_buffer = [f \in {DetectFeed} |-> Repeat(1000, n)]
          /\ timestamp_buffer = [f \in {DetectFeed} |-> [i \in 1..n |-> i - n]]
          /\ detect_calls = [f \in Feeds |-> IF f = DetectFeed THEN n ELSE 0]
    /\ last_detect = EmptyDict

NextWarm ==
    \/ ReceivePriceUpdate
    \/ ProcessDetection
    \/ ReceiveExternalAnomaly

SpecWarm == InitWarm /\ [][NextWarm]_vars

----------------------------------------------------------------------------
(* Shutdown: main() leaves start() on the shutdown signal, at whatever      *)
(* await the loop is suspended in, and calls stop() in its finally clause  *)

\* the shutdown signal ends the task inside start(); what the handler in
\* flight had left to do is not done, and stop() closes the connections
Shutdown ==
    /\ is_running
    /\ is_running' = Stop.is_running
    /\ open_connections' = Stop.open_connections
    /\ pending' = <<>>
    /\ UNCHANGED <<now, dedupVars, config, actionVars, notifyVars, detectorVars,
                   circuit_breaker_active, alerts_generated, storeVars,
                   published, cur_feed, nmsgs, last_msg, faults>>

NextShutdown ==
    \/ ReceivePriceUpdate
    \/ ProcessDetection
    \/ Shutdown

SpecShutdown == Init /\ [][NextShutdown]_vars

----------------------------------------------------------------------------
(* _get_recommended_actions alone: a bounded run of calls *)

CallGetRecommendedActions ==
    /\ Len(action_calls) < MaxActionCalls
    /\ \E fraud_type \in FraudType, severity \in AlertSeverity :
          LET r == GetRecommendedActions(BuildActions(actions), fraud_type, severity)
          IN  /\ action_calls' = Append(action_calls,
                                     [fraud_type |-> fraud_type, severity |-> severity,
                                      result |-> r.result])
              /\ actions' = r.actions
    /\ UNCHANGED <<now, dedupVars, config, runVars, notifyVars, pipeVars>>

NextActions == CallGetRecommendedActions

SpecActions == InitDedup /\ [][NextActions]_vars

----------------------------------------------------------------------------
(* C1: for every key, a non-CRITICAL should_alert call made less than      *)
(* cooldown_minutes after an admitted non-CRITICAL call for the same key   *)
(* returns false: two non-CRITICAL detections within the cooldown of each  *)
(* other yield exactly one admitted alert.                                 *)
C1_CooldownSuppresses ==
    [][(ncalls' # ncalls /\ last_call'.severity # CRITICAL
        /\ last_call'.key \in DOMAIN noncrit_at
        /\ last_call'.at - noncrit_at[last_call'.key] < alert_cooldown_minutes)
       => last_call'.result = FALSE]_vars

C1_Witness ==
    /\ ncalls > 0
    /\ last_call.severity # CRITICAL
    /\ last_call.result = FALSE
    /\ last_call.key \in DOMAIN noncrit_at
    /\ last_call.at - noncrit_at[last_call.key] < alert_cooldown_minutes
    /\ last_call.at > noncrit_at[last_call.key]

(* C2: should_alert with severity CRITICAL returns true in every state and *)
(* sets the key's last_alert_at to the current time, and a non-CRITICAL    *)
(* call for the key less than cooldown_minutes after a CRITICAL one is     *)
(* suppressed.                                                             *)
C2_CriticalAdmittedAndStamps ==
    [][ncalls' # ncalls =>
        /\ last_call'.severity = CRITICAL =>
              /\ last_call'.result = TRUE
              /\ last_call'.key \in DOMAIN recent_alerts'
              /\ recent_alerts'[last_call'.key] = last_call'.at
        /\ (last_call'.severity # CRITICAL
            /\ last_call'.key \in DOMAIN crit_at
            /\ last_call'.at - crit_at[last_call'.key] < alert_cooldown_minutes)
           => last_call'.result = FALSE]_vars

\* a CRITICAL call was admitted inside the key's cooldown and restarted it: a
\* non-CRITICAL call that the earlier non-CRITICAL alert no longer covers is
\* suppressed because of the CRITICAL one
C2_Witness ==
    /\ ncalls > 0
    /\ last_call.severity # CRITICAL
    /\ last_call.result = FALSE
    /\ last_call.key \in DOMAIN noncrit_at
    /\ last_call.key \in DOMAIN crit_at
    /\ crit_at[last_call.key] > noncrit_at[last_call.key]
    /\ crit_at[last_call.key] - noncrit_at[last_call.key] < alert_cooldown_minutes
    /\ last_call.at - noncrit_at[last_call.key] >= alert_cooldown_minutes
    /\ last_call.at - crit_at[last_call.key] < alert_cooldown_minutes
    /\ recent_alerts[last_call.key] = crit_at[last_call.key]

\* the channels a configuration asks for
ConfiguredChannels(cfg) ==
    {ch \in HttpChannels :
        CASE ch = WEBHOOK -> cfg.webhook_url # None
          [] ch = TELEGRAM -> cfg.telegram_bot_token # None /\ cfg.telegram_chat_id # None
          [] ch = SLACK -> cfg.slack_webhook_url # None}

AttemptsOf(ch) == Cardinality({i \in DOMAIN attempts : attempts[i].channel = ch})

(* C9: notify_all_channels attempts every configured channel (webhook,     *)
(* Telegram, Slack) exactly once per alert, whatever the outcome of the    *)
(* other channels; a channel that fails, raises or times out is recorded   *)
(* false, every channel's entry is decided by its own endpoint alone, and  *)
(* the call never raises.                                                  *)
C9_ChannelsIsolated ==
    notified =>
        /\ ~notify_raised
        /\ \A ch \in HttpChannels :
              /\ AttemptsOf(ch) = (IF ch \in ConfiguredChannels(config) THEN 1 ELSE 0)
              /\ ch \in DOMAIN notify_results <=> ch \in ConfiguredChannels(config)
              /\ ch \in ConfiguredChannels(config) =>
                    notify_results[ch] =
                        (last_outcomes[ch] = Responds(200))

\* the first channel raised or timed out, a later one succeeded
C9_Witness ==
    /\ notified
    /\ ConfiguredChannels(config) = HttpChannels
    /\ last_outcomes[WEBHOOK] = Raises(TIMEOUT)
    /\ last_outcomes[TELEGRAM] = Raises(ERROR)
    /\ notify_results[WEBHOOK] = FALSE
    /\ notify_results[SLACK] = TRUE
    /\ notify_results[REDIS] = TRUE

(* C10: the publish to fraud:alerts is attempted on every                  *)
(* notify_all_channels call and the returned map always has a 'redis'      *)
(* entry, for every configuration and every outcome of the other channels. *)
C10_RedisAlwaysAttempted ==
    notified =>
        /\ AttemptsOf(REDIS) = 1
        /\ REDIS \in DOMAIN notify_results
        /\ notify_results[REDIS] = (last_outcomes[REDIS].exc = None)

\* no HTTP channel configured, and a call where every HTTP channel failed
C10_Witness ==
    /\ notified
    /\ REDIS \in DOMAIN notify_results
    /\ \/ ConfiguredChannels(config) = {}
       \/ /\ ConfiguredChannels(config) = HttpChannels
          /\ \A ch \in HttpChannels : notify_results[ch] = FALSE

(* C13: the channel calls of one notify_all_channels call run concurrently: *)
(* every call starts when notify_all_channels is called, none waits for    *)
(* another channel's answer or timeout, and all of them are over when the  *)
(* call returns.                                                           *)
C13_ChannelsConcurrent ==
    notified =>
        \A i \in DOMAIN attempts :
            /\ attempts[i].start = 0
            /\ attempts[i].finish <= attempts[Len(attempts)].finish

(* C14: a webhook, Telegram or Slack delivery is reported true for every   *)
(* 2xx response status and false for every other status, error or timeout. *)
C14_SuccessIs2xx ==
    notified =>
        \A ch \in ConfiguredChannels(config) :
            notify_results[ch] =
                (/\ last_outcomes[ch].exc = None
                 /\ last_outcomes[ch].status >= 200
                 /\ last_outcomes[ch].status <= 299)

----------------------------------------------------------------------------
(* Claims about the circuit breaker, checked on the pipeline *)

ActivatedEvents(feed_name) ==
    {i \in DOMAIN published :
        published[i].topic = ACTIVATED /\ published[i].feed_name = feed_name}

DeactivatedEvents(feed_name) ==
    {i \in DOMAIN published :
        published[i].topic = DEACTIVATED /\ published[i].feed_name = feed_name}

\* this step takes a price:update message for feed f from the bus
TakesPriceUpdate(f) ==
    /\ nmsgs' = nmsgs + 1
    /\ last_msg'.channel = PRICE_UPDATE
    /\ last_msg'.feed_name = f

\* this step is a deactivate_circuit_breaker(f) call
IsDeactivateCall(f) ==
    /\ Len(published') = Len(published) + 1
    /\ published'[Len(published')].topic = DEACTIVATED
    /\ published'[Len(published')].feed_name = f

(* C3: while a feed is in circuit_breaker_active every price:update event  *)
(* for it is skipped, detect_fraud is not invoked for it until             *)
(* deactivate_circuit_breaker(feed) is called; a price:update event of a   *)
(* feed that is not in the set is evaluated.                               *)
C3_ActiveFeedSkipped ==
    [][\A f \in Feeds :
         /\ f \in circuit_breaker_active =>
               /\ detect_calls'[f] = detect_calls[f]
               /\ DictGet(price_buffer', f, <<>>) = DictGet(price_buffer, f, <<>>)
               /\ DictGet(volume_buffer', f, <<>>) = DictGet(volume_buffer, f, <<>>)
               /\ TakesPriceUpdate(f) => last_msg'.skipped /\ pending' = <<>>
         /\ (TakesPriceUpdate(f) /\ f \notin circuit_breaker_active) =>
               /\ ~last_msg'.skipped
               /\ detect_calls'[f] = detect_calls[f] + 1]_vars

\* an event of a feed with an active breaker was skipped, after an event of
\* the other feed had been evaluated while that breaker was active
C3_Witness ==
    /\ nmsgs > 0
    /\ last_msg.channel = PRICE_UPDATE
    /\ last_msg.skipped
    /\ last_msg.feed_name \in circuit_breaker_active
    /\ detect_calls[last_msg.feed_name] = 1
    /\ \E i \in ActivatedEvents(last_msg.feed_name) :
       \E a, b \in DOMAIN alerts_generated :
          /\ alerts_generated[a].id = published[i].alert_id
          /\ a < b
          /\ alerts_generated[b].feed_name # last_msg.feed_name
          /\ alerts_generated[b].fraud_type # ORACLE_SPOOFING

(* C4: once a feed's circuit breaker is active, no second                  *)
(* circuit_breaker:activated publication occurs for that feed until it has *)
(* been deactivated, also for several detections produced by one event.    *)
C4_NoSecondActivation ==
    \A f \in Feeds : \A i, j \in ActivatedEvents(f) :
        i < j => \E k \in DeactivatedEvents(f) : i < k /\ k < j

(* C5: a feed moves from Inactive to Active exactly when a detection for   *)
(* it is admitted by the deduplicator, its raw score is strictly greater   *)
(* than circuit_break_threshold and enable_auto_circuit_break is true.     *)
C5_ActivationCondition ==
    [][\A f \in Feeds :
         (f \notin circuit_breaker_active /\ f \in circuit_breaker_active')
         <=> /\ f \notin circuit_breaker_active
             /\ pending # <<>>
             /\ cur_feed = f
             /\ ncalls' = ncalls + 1
             /\ last_call'.result
             /\ last_call'.key = DedupKey(f, Head(pending).fraud_type)
             /\ RatGT(Head(pending).score, circuit_break_threshold)
             /\ config.enable_auto_circuit_break]_vars

\* a detection whose score is above the threshold was suppressed by the
\* deduplicator and left the feed inactive, after the same detection, when
\* admitted, had activated the breaker
C5_Witness ==
    /\ config.enable_auto_circuit_break
    /\ ncalls > 0
    /\ last_call.result = FALSE
    /\ last_call.key[2] = LATENCY_SPIKE
    /\ last_call.key[1] \notin circuit_breaker_active
    /\ ActivatedEvents(last_call.key[1]) # {}
    /\ DeactivatedEvents(last_call.key[1]) # {}

(* C6: a feed in circuit_breaker_active leaves the set only through a      *)
(* deactivate_circuit_breaker call for that feed: not by time passing, by  *)
(* a bus message, or by the deactivation of another feed.                  *)
C6_DeactivationManual ==
    [][\A f \in Feeds :
         (f \in circuit_breaker_active /\ f \notin circuit_breaker_active')
         => IsDeactivateCall(f)]_vars

\* a feed is still active after a minute has passed, another feed was
\* deactivated and a later bus message has raised an alert
C6_Witness ==
    \E f \in circuit_breaker_active : \E i \in ActivatedEvents(f) :
        /\ now > published[i].timestamp
        /\ \E g \in Feeds \ {f} : \E k \in DeactivatedEvents(g) : k > i
        /\ nmsgs >= 2
        /\ \E a \in DOMAIN alerts_generated :
              alerts_generated[a].timestamp > published[i].timestamp

(* C7: every activation of a feed's breaker is triggered by a detection    *)
(* whose severity is CRITICAL or HIGH.                                     *)
C7_ActivationHighSeverity ==
    \A i \in DOMAIN published :
        published[i].topic = ACTIVATED =>
            \A a \in DOMAIN alerts_generated :
                alerts_generated[a].id = published[i].alert_id =>
                    alerts_generated[a].severity \in {CRITICAL, HIGH}

(* C8: every Inactive->Active transition makes one                         *)
(* circuit_breaker:activated publish carrying the feed name, the id of the *)
(* alert created from the triggering detection and a timestamp; every      *)
(* Active->Inactive transition makes one circuit_breaker:deactivated       *)
(* publish carrying the feed name and a timestamp.                         *)
C8_TransitionsPublish ==
    [][\A f \in Feeds :
         /\ (f \notin circuit_breaker_active /\ f \in circuit_breaker_active') =>
               /\ Len(published') = Len(published) + 1
               /\ SubSeq(published', 1, Len(published)) = published
               /\ Len(alerts_generated') = Len(alerts_generated) + 1
               /\ LET e == published'[Len(published')]
                      alert == alerts_generated'[Len(alerts_generated')]
                  IN  /\ e.topic = ACTIVATED
                      /\ e.feed_name = f
                      /\ e.alert_id = alert.id
                      /\ e.timestamp = now'
                      /\ alert.feed_name = f
                      /\ alert.fraud_type = Head(pending).fraud_type
                      /\ alert.anomaly_score = Head(pending).score
         /\ (f \in circuit_breaker_active /\ f \notin circuit_breaker_active') =>
               /\ Len(published') = Len(published) + 1
               /\ SubSeq(published', 1, Len(published)) = published
               /\ LET e == published'[Len(published')]
                  IN  /\ e.topic = DEACTIVATED
                      /\ e.feed_name = f
                      /\ e.timestamp = now]_vars

\* a feed was activated and later deactivated, both published
C8_Witness ==
    \E f \in Feeds \ circuit_breaker_active :
        \E i \in ActivatedEvents(f) : \E k \in DeactivatedEvents(f) :
            /\ i < k
            /\ \E a \in DOMAIN alerts_generated :
                  alerts_generated[a].id = published[i].alert_id

----------------------------------------------------------------------------
(* Claims about _send_alert, checked on the pipeline *)

\* this step runs _send_alert: a detection is admitted by the deduplicator,
\* or an anomaly:detected message is handled
IsSendAlertStep ==
    \/ pending # <<>> /\ ncalls' = ncalls + 1 /\ last_call'.result
    \/ nmsgs' = nmsgs + 1 /\ last_msg'.channel = ANOMALY_DETECTED

(* C11: every alert passed to _send_alert is appended to alerts_generated   *)
(* whatever the store and the notification channels then answer, no step   *)
(* removes an alert from alerts_generated, and total_alerts of              *)
(* get_statistics counts every one of them.                                *)
C11_GeneratedOnceAppended ==
    [][/\ Len(alerts_generated') >= Len(alerts_generated)
       /\ SubSeq(alerts_generated', 1, Len(alerts_generated)) = alerts_generated
       /\ GetStatistics'.total_alerts = Len(alerts_generated')
       /\ IsSendAlertStep =>
             /\ Len(alerts_generated') = Len(alerts_generated) + 1
             /\ GetStatistics'.total_alerts = GetStatistics.total_alerts + 1
             /\ alerts_generated'[Len(alerts_generated')].id[1] = last_msg'.feed_name
                    \/ alerts_generated'[Len(alerts_generated')].id[1] = cur_feed]_vars

\* the store write and the only configured channel both failed for the one
\* alert generated, and it is still counted a minute later
C11_Witness ==
    /\ Len(alerts_generated) = 1
    /\ GetStatistics.total_alerts = 1
    /\ redis_alerts = EmptyDict
    /\ last_store.exc # None
    /\ notified /\ notify_results[REDIS] = FALSE
    /\ faults = 2
    /\ now > alerts_generated[1].timestamp

(* C12: in every _send_alert, notify_all_channels is called for the alert   *)
(* whether or not the store write failed, and an alert the store accepted  *)
(* is stored under alert:<id> and indexed whatever the notification        *)
(* channels answer; a failed write leaves the store as it was.             *)
C12_StoreNotifyIndependent ==
    [][IsSendAlertStep =>
        LET alert == alerts_generated'[Len(alerts_generated')]
        IN  /\ notified'
            /\ attempts' # <<>>
            /\ \A i \in DOMAIN attempts' : attempts'[i].alert_id = alert.id
            /\ last_outcomes'[REDIS].exc # None => notify_results'[REDIS] = FALSE
            /\ last_store'.exc = None =>
                  /\ alert.id \in DOMAIN redis_alerts'
                  /\ redis_alerts'[alert.id] = alert
                  /\ Head(alerts_all') = alert.id
            /\ last_store'.exc # None =>
                  /\ redis_alerts' = redis_alerts
                  /\ alerts_all' = alerts_all]_vars

\* of two alerts, the first was stored although its notification failed, the
\* second was notified although its store write failed
C12_Witness ==
    /\ Len(alerts_generated) = 2
    /\ alerts_generated[1].id # alerts_generated[2].id
    /\ alerts_generated[1].id \in DOMAIN redis_alerts
    /\ alerts_generated[2].id \notin DOMAIN redis_alerts
    /\ last_store.exc # None
    /\ notify_results[REDIS] = TRUE
    /\ attempts[1].alert_id = alerts_generated[2].id
    /\ faults = 2
    /\ published = <<>>

(* C18: a price:update message that is not JSON or that lacks feed_name,    *)
(* price, volume, source_count or latency_ms is dropped: it yields no      *)
(* detection to turn into an alert and leaves the rolling histories, the   *)
(* deduplicator and the circuit breakers as they were.                     *)
C18_MalformedDropped ==
    [][(nmsgs' = nmsgs + 1 /\ ~last_msg'.complete) =>
          /\ pending' = <<>>
          /\ UNCHANGED <<price_buffer, volume_buffer, timestamp_buffer,
                         recent_alerts, alert_counts, circuit_breaker_active,
                         alerts_generated>>]_vars

----------------------------------------------------------------------------
(* Claims about alert ids, checked on the pipeline *)

(* C15: Alert.id is a function of the alert's own (feed_name, fraud_type,  *)
(* timestamp) fields: two alerts made by _create_alert that agree on these *)
(* three fields have the same id.                                          *)
C15_IdFunctionOfFields ==
    \A a, b \in DOMAIN alerts_generated :
        (/\ alerts_generated[a].feed_name = alerts_generated[b].feed_name
         /\ alerts_generated[a].fraud_type = alerts_generated[b].fraud_type
         /\ alerts_generated[a].timestamp = alerts_generated[b].timestamp)
        => alerts_generated[a].id = alerts_generated[b].id

(* C16: no two alerts appended to alerts_generated share an id, whatever   *)
(* topic, feed and fraud type they come from and also when they are made   *)
(* at the same clock reading, so no alert:<id> record is overwritten by a  *)
(* later alert.                                                            *)
C16_IdsUnique ==
    \A a, b \in DOMAIN alerts_generated :
        a # b => alerts_generated[a].id # alerts_generated[b].id

----------------------------------------------------------------------------
(* Claims about detect_fraud, checked on the detector *)

Range(q) == {q[i] : i \in DOMAIN q}

\* the buffers of the feed of the last detect_fraud call, as that call left them
LastPrices == price_buffer[DictGet(last_detect.data, "feed_name", UNKNOWN)]
LastVolumes == volume_buffer[DictGet(last_detect.data, "feed_name", UNKNOWN)]

(* C17: when one detector raises while evaluating an event, the detections *)
(* of the other detectors for that event are still returned by             *)
(* detect_fraud, to be processed into alerts.                              *)
C17_DetectorsIsolated ==
    DOMAIN last_detect # {} =>
        \A d \in Range(DetectPriceManipulation(LastPrices, last_detect.data))
                 \cup Range(DetectVolumeAnomaly(LastVolumes, last_detect.data))
                 \cup Range(DetectLatencySpike(last_detect.data))
                 \cup Range(DetectSourceDegradation(last_detect.data)) :
            d \in Range(last_detect.detections)

(* C19: when the scorer is not loaded, or raises during feature extraction *)
(* or scoring, detect_fraud returns exactly the detections of the          *)
(* heuristic detectors, none of them from the ML detector, and the         *)
(* scorer's exception does not leave detect_fraud.                         *)
C19_ScorerFailureAbsorbed ==
    (/\ DOMAIN last_detect # {}
     /\ ~SandwichRaises(LastPrices)
     /\ \/ model = None
        \/ feature_extractor = None
        \/ last_detect.ml.exc # None)
    => /\ ~last_detect.raised
       /\ last_detect.detections =
              Heuristics(LastPrices, LastVolumes, last_detect.data)
       /\ \A d \in Range(last_detect.detections) : d.fraud_type # ORACLE_SPOOFING

\* a loaded scorer raised on a history of 50 points and the heuristic
\* detections of the event were returned
C19_Witness ==
    /\ DOMAIN last_detect # {}
    /\ model = SCORER /\ feature_extractor = EXTRACTOR
    /\ Len(LastPrices) >= MlMinPoints
    /\ last_detect.ml.exc = ERROR
    /\ ~last_detect.raised
    /\ \E d \in Range(last_detect.detections) : d.fraud_type = LATENCY_SPIKE
    /\ \E d \in Range(last_detect.detections) : d.fraud_type = PRICE_MANIPULATION

(* C20: every detection returned by detect_fraud has a confidence within   *)
(* [0, 1], for every event, history and scorer answer.                     *)
C20_ConfidenceInUnitInterval ==
    DOMAIN last_detect # {} =>
        \A d \in Range(last_detect.detections) :
            /\ ~RatLT(d.confidence, <<0, 1>>)
            /\ ~RatGT(d.confidence, <<1, 1>>)

\* a volume of 12 times the mean and a raw score of 1.5 were both clamped,
\* next to a price detection
C20_Witness ==
    /\ DOMAIN last_detect # {}
    /\ last_detect.ml.exc = None /\ RatGT(last_detect.ml.score, <<1, 1>>)
    /\ \E d \in Range(last_detect.detections) :
          d.fraud_type = ORACLE_SPOOFING /\ d.confidence = <<1, 1>>
    /\ \E d \in Range(last_detect.detections) :
          d.fraud_type = VOLUME_ANOMALY /\ d.severity = HIGH
    /\ \E d \in Range(last_detect.detections) : d.fraud_type = PRICE_MANIPULATION

\* the detections of one fraud type returned by the last detect_fraud call
Returned(fraud_type) ==
    {d \in Range(last_detect.detections) : d.fraud_type = fraud_type}

\* equality of fractions with positive denominators, in lowest terms, and
\* min(r, 1) of such a fraction
RECURSIVE Gcd(_, _)
Gcd(a, b) == IF b = 0 THEN a ELSE Gcd(b, a % b)
Lowest(r) == LET g == Gcd(Abs(r[1]), Abs(r[2])) IN <<r[1] \div g, r[2] \div g>>
RatEq(a, b) == Lowest(a) = Lowest(b)
UnitMin(r) == IF r[1] > r[2] THEN <<1, 1>> ELSE r

(* C21: every detection returned by detect_fraud has a score within [0, 1], *)
(* for every detector and every event.                                     *)
C21_ScoreInUnitInterval ==
    DOMAIN last_detect # {} =>
        \A d \in Range(last_detect.detections) :
            /\ ~RatLT(d.score, <<0, 1>>)
            /\ ~RatGT(d.score, <<1, 1>>)

(* C22: with two or more prices in the history and a previous price other  *)
(* than 0, a PRICE_MANIPULATION detection is returned exactly when         *)
(* change = |p_t - p_(t-1)| / p_(t-1) > 0.15; it is CRITICAL when          *)
(* change > 0.5 and HIGH otherwise, its confidence is min(change/0.15, 1), *)
(* its score is change and its loss change * volume * 0.1.                 *)
C22_PriceManipulationRule ==
    (/\ DOMAIN last_detect # {}
     /\ ~last_detect.raised
     /\ Len(LastPrices) >= 2
     /\ LastPrices[Len(LastPrices) - 1] > 0)
    => LET cur == LastPrices[Len(LastPrices)]
           prev == LastPrices[Len(LastPrices) - 1]
           delta == IF cur >= prev THEN cur - prev ELSE prev - cur
       IN  /\ Returned(PRICE_MANIPULATION) # {} <=> 100 * delta > 15 * prev
           /\ \A d \in Returned(PRICE_MANIPULATION) :
                 /\ d.severity = (IF 2 * delta > prev THEN CRITICAL ELSE HIGH)
                 /\ RatEq(d.confidence, UnitMin(<<100 * delta, 15 * prev>>))
                 /\ RatEq(d.score, <<delta, prev>>)
                 /\ RatEq(d.potential_loss,
                          <<delta * last_detect.data.volume, prev * 10>>)

\* a move from 100 to 120, a fifth like 2000 to 2400, gave HIGH with confidence 1
C22_Witness ==
    /\ DOMAIN last_detect # {}
    /\ Len(LastPrices) >= 2
    /\ LastPrices[Len(LastPrices) - 1] = 100
    /\ LastPrices[Len(LastPrices)] = 120
    /\ \E d \in Returned(PRICE_MANIPULATION) :
          d.severity = HIGH /\ RatEq(d.confidence, <<1, 1>>)

(* C23: a FLASH_LOAN_ATTACK detection is CRITICAL with confidence 0.85 and *)
(* twice the loss of the price-manipulation detection it comes with, and   *)
(* it is returned only when the last 4 prices hold two moves of more than  *)
(* 10% each that go in opposite directions.                                *)
C23_FlashLoanOppositeMoves ==
    DOMAIN last_detect # {} =>
        \A d \in Returned(FLASH_LOAN_ATTACK) :
            /\ d.severity = CRITICAL
            /\ RatEq(d.confidence, <<85, 100>>)
            /\ \E pm \in Returned(PRICE_MANIPULATION) :
                  RatEq(d.potential_loss, RatMul(pm.potential_loss, <<2, 1>>))
            /\ Len(LastPrices) >= 4
            /\ LET r == LastN(LastPrices, 4)
               IN  /\ 10 * Abs(r[2] - r[1]) > r[1]
                   /\ 10 * Abs(r[4] - r[3]) > r[3]
                   /\ (r[2] - r[1]) * (r[4] - r[3]) < 0

(* C24: with fewer than 10 volumes in the history no VOLUME_ANOMALY is     *)
(* returned; with 10 or more and a mean of the previous volumes other than *)
(* 0, one is returned exactly when ratio = current / mean > 5; it is HIGH  *)
(* when ratio > 10 and MEDIUM otherwise, its confidence is                 *)
(* min(ratio / 10, 1) and its loss current * 0.01.                         *)
C24_VolumeAnomalyRule ==
    (DOMAIN last_detect # {} /\ ~last_detect.raised)
    => LET n == Len(LastVolumes) - 1
           total == SeqSum(SubSeq(LastVolumes, 1, n))
           cur == LastVolumes[n + 1]
       IN  /\ n + 1 < 10 => Returned(VOLUME_ANOMALY) = {}
           /\ (n + 1 >= 10 /\ total > 0) =>
                 /\ Returned(VOLUME_ANOMALY) # {} <=> cur * n > 5 * total
                 /\ \A d \in Returned(VOLUME_ANOMALY) :
                       /\ d.severity = (IF cur * n > 10 * total THEN HIGH ELSE MEDIUM)
                       /\ RatEq(d.confidence, UnitMin(<<cur * n, 10 * total>>))
                       /\ RatEq(d.potential_loss, <<cur, 100>>)

\* nine volumes of 100 and then 800: ratio 8, MEDIUM, confidence 0.8
C24_Witness ==
    /\ DOMAIN last_detect # {}
    /\ Len(LastVolumes) = 10
    /\ last_detect.data.volume = 800
    /\ \E d \in Returned(VOLUME_ANOMALY) :
          d.severity = MEDIUM /\ RatEq(d.confidence, <<8, 10>>)

(* C25: a SOURCE_DEGRADATION detection is returned exactly when            *)
(* source_count < 3; it is CRITICAL when source_count <= 1 and HIGH        *)
(* otherwise, its confidence is 0.95 and its loss 10000 * (3 - count).     *)
C25_SourceDegradationRule ==
    (DOMAIN last_detect # {} /\ ~last_detect.raised)
    => LET count == last_detect.data.source_count
       IN  /\ Returned(SOURCE_DEGRADATION) # {} <=> count < 3
           /\ \A d \in Returned(SOURCE_DEGRADATION) :
                 /\ d.severity = (IF count <= 1 THEN CRITICAL ELSE HIGH)
                 /\ RatEq(d.confidence, <<95, 100>>)
                 /\ RatEq(d.potential_loss, <<10000 * (3 - count), 1>>)

\* one source left: CRITICAL with a loss of 20000
C25_Witness ==
    /\ DOMAIN last_detect # {}
    /\ last_detect.data.source_count = 1
    /\ \E d \in Returned(SOURCE_DEGRADATION) :
          d.severity = CRITICAL /\ RatEq(d.potential_loss, <<20000, 1>>)

\* what a buffer of capacity 100 holds after an event is added to it
Evicting(old, x) ==
    IF Len(old) >= BufferMaxLen THEN Tail(old) \o <<x>> ELSE old \o <<x>>

(* C26: for every feed the price, volume and timestamp buffers hold at most *)
(* 100 entries and have equal length, and every detect_fraud call, also    *)
(* one in which a detector raises, appends the event to the three buffers  *)
(* in arrival order, the oldest entry leaving first on overflow.           *)
C26_BuffersBoundedFifo ==
    [][/\ \A f \in DOMAIN price_buffer' :
             /\ f \in DOMAIN volume_buffer' /\ f \in DOMAIN timestamp_buffer'
             /\ Len(price_buffer'[f]) <= BufferMaxLen
             /\ Len(volume_buffer'[f]) = Len(price_buffer'[f])
             /\ Len(timestamp_buffer'[f]) = Len(price_buffer'[f])
       /\ last_detect' # last_detect =>
             LET data == last_detect'.data
                 f == data.feed_name
             IN  /\ price_buffer'[f] = Evicting(price_buffer[f], data.price)
                 /\ volume_buffer'[f] = Evicting(volume_buffer[f], data.volume)
                 /\ timestamp_buffer'[f] = Evicting(timestamp_buffer[f], now)]_vars

\* a full buffer took one more event and lost its oldest entry, in a call in
\* which the sandwich detector raised
C26_Witness ==
    /\ DOMAIN last_detect # {}
    /\ last_detect.raised
    /\ Len(LastPrices) = BufferMaxLen
    /\ LastPrices[BufferMaxLen] = last_detect.data.price
    /\ Len(timestamp_buffer[DetectFeed]) = BufferMaxLen
    /\ timestamp_buffer[DetectFeed][1] = 2 - BufferMaxLen
    /\ timestamp_buffer[DetectFeed][BufferMaxLen] = now

----------------------------------------------------------------------------
(* Claims about the alert store, checked on the store alone *)

(* C27: after each _store_alert that completed, the alert is kept under    *)
(* alert:<id> with a time to live of retention_days days, its id is the    *)
(* newest entry of alerts:all, and alerts:all holds at most 10,000 ids,    *)
(* the entries behind the newest being the earlier ones in their order     *)
(* with the oldest dropped first.                                          *)
C27_StoredIndexedCapped ==
    [][(Len(alerts_generated') = Len(alerts_generated) + 1 /\ last_store'.exc = None) =>
        LET alert == alerts_generated'[Len(alerts_generated')]
            kept == Len(alerts_all') - 1
        IN  /\ alert.id \in DOMAIN redis_alerts'
            /\ redis_alerts'[alert.id] = alert
            /\ alert.id \in DOMAIN redis_ttl'
            /\ redis_ttl'[alert.id] = config.retention_days
            /\ alerts_all'[1] = alert.id
            /\ Len(alerts_all') <= 10000
            /\ kept = (IF Len(alerts_all) < 10000 THEN Len(alerts_all) ELSE 9999)
            /\ SubSeq(alerts_all', 2, kept + 1) = SubSeq(alerts_all, 1, kept)]_vars

\* a completed store on a full index: the new id is first, the index still
\* holds 10,000 ids and the oldest of the earlier ones is gone
C27_Witness ==
    /\ Len(alerts_generated) = 1
    /\ last_store = Responds(1)
    /\ Len(alerts_all) = AlertsAllMax
    /\ alerts_all[1] = alerts_generated[1].id
    /\ alerts_all[AlertsAllMax] = GenerateAlertId(DetectFeed, LATENCY_SPIKE, 1 - AlertsAllMax)
    /\ redis_ttl[alerts_generated[1].id] = 7

----------------------------------------------------------------------------
(* Claims about the recommended actions *)

\* how often x occurs in the sequence q
Occurrences(q, x) == Cardinality({i \in DOMAIN q : q[i] = x})

(* C28: _get_recommended_actions returns, for CRITICAL, the fraud type's   *)
(* list with the emergency action put first, and for any other severity    *)
(* the fraud type's list as it is; calls with the same (fraud_type,        *)
(* severity) return the same list, the emergency action is in no           *)
(* non-CRITICAL result and exactly once in a CRITICAL one, whatever calls  *)
(* came before.                                                            *)
C28_ActionsBySeverity ==
    \A i \in DOMAIN action_calls :
        LET c == action_calls[i]
            own == IF c.fraud_type \in DOMAIN ActionsTable
                   THEN ActionsTable[c.fraud_type] ELSE DefaultActions
        IN  /\ c.severity = CRITICAL =>
                  /\ Head(c.result) = EMERGENCY
                  /\ Tail(c.result) = own
                  /\ Occurrences(c.result, EMERGENCY) = 1
            /\ c.severity # CRITICAL =>
                  /\ c.result = own
                  /\ Occurrences(c.result, EMERGENCY) = 0
            /\ \A j \in DOMAIN action_calls :
                  (/\ action_calls[j].fraud_type = c.fraud_type
                   /\ action_calls[j].severity = c.severity)
                  => action_calls[j].result = c.result

\* a CRITICAL call and then a HIGH call for the same fraud type: five
\* actions, then the four of the type
C28_Witness ==
    /\ Len(action_calls) = 2
    /\ action_calls[1].fraud_type = PRICE_MANIPULATION
    /\ action_calls[2].fraud_type = PRICE_MANIPULATION
    /\ action_calls[1].severity = CRITICAL
    /\ action_calls[2].severity = HIGH
    /\ Len(action_calls[1].result) = 5
    /\ Len(action_calls[2].result) = 4

----------------------------------------------------------------------------
(* Claims about the order of processing and about shutdown *)

(* C29: events are processed one at a time: a message is taken only when   *)
(* the processing of the one before has finished, and while an event is in *)
(* flight no step takes a message, touches the rolling histories, changes  *)
(* the feed in hand, or writes a dedup entry of another feed; the          *)
(* detections in flight are worked off in their order.                     *)
C29_OneEventAtATime ==
    [][/\ nmsgs' # nmsgs => pending = <<>>
       /\ pending # <<>> =>
             /\ nmsgs' = nmsgs
             /\ UNCHANGED <<price_buffer, volume_buffer, timestamp_buffer, cur_feed>>
             /\ pending' \in {pending, Tail(pending), <<>>}
             /\ \A k \in DOMAIN recent_alerts' :
                   (k \notin DOMAIN recent_alerts \/ recent_alerts'[k] # recent_alerts[k])
                   => k[1] = cur_feed]_vars

\* an event with two detections is half worked off: one alert is out, one
\* detection is still in flight
C29_Witness ==
    /\ nmsgs = 1
    /\ Len(pending) = 1
    /\ Len(alerts_generated) = 1
    /\ alerts_generated[1].feed_name = cur_feed

(* C30: shutdown is cooperative: once is_running is cleared no message is  *)
(* processed and no alert is sent, and the connections are closed only     *)
(* when no per-event work is in flight.                                    *)
C30_CooperativeShutdown ==
    [][/\ ~is_running => (nmsgs' = nmsgs /\ alerts_generated' = alerts_generated)
       /\ open_connections' # open_connections => pending = <<>>]_vars

----------------------------------------------------------------------------
(* Claims about the deduplicator's counters and its cleanup *)

(* C31: the counter of a key goes up by one at every should_alert call for *)
(* the key that returns true, whatever the severity, and only then: the    *)
(* counter get_alert_statistics reports is the number of admitted calls.   *)
C31_CounterCountsAdmitted ==
    [][ncalls' # ncalls =>
        LET key == last_call'.key
        IN  DictGet(alert_counts', key, 0) =
                DictGet(alert_counts, key, 0) + (IF last_call'.result THEN 1 ELSE 0)]_vars

(* C32: cleanup_old_entries leaves neither a last-alert timestamp nor a    *)
(* counter for a key it found too old, and keeps the other entries as they *)
(* were.                                                                   *)
C32_CleanupRemovesOld ==
    [][(ncalls' = ncalls /\ recent_alerts' # recent_alerts) =>
        /\ \A k \in DOMAIN recent_alerts \ DOMAIN recent_alerts' :
              k \notin DOMAIN alert_counts'
        /\ \A k \in DOMAIN recent_alerts' :
              k \in DOMAIN recent_alerts /\ recent_alerts'[k] = recent_alerts[k]]_vars

\* the times of the admitted and of the CRITICAL calls made so far for a key
Stamps(key) ==
    (IF key \in DOMAIN noncrit_at THEN {noncrit_at[key]} ELSE {})
    \cup (IF key \in DOMAIN crit_at THEN {crit_at[key]} ELSE {})

(* C36: a suppressed call leaves the deduplicator as it was, and a         *)
(* non-CRITICAL call is admitted exactly when cooldown_minutes have passed *)
(* since the last admitted or CRITICAL call for its key (or there was      *)
(* none): suppressed calls in between never put the admission off.         *)
C36_SuppressionKeepsCooldown ==
    [][(ncalls' # ncalls /\ last_call'.severity # CRITICAL) =>
        LET due == \A s \in Stamps(last_call'.key) :
                       last_call'.at - s >= alert_cooldown_minutes
        IN  /\ last_call'.result = due
            /\ ~last_call'.result =>
                  /\ recent_alerts' = recent_alerts
                  /\ alert_counts' = alert_counts]_vars

\* three non-CRITICAL calls for one key: admitted, suppressed inside the
\* cooldown, admitted again the minute the cooldown was over
C36_Witness ==
    /\ ncalls = 3
    /\ DOMAIN crit_at = {}
    /\ DOMAIN alert_counts = {last_call.key}
    /\ alert_counts[last_call.key] = 2
    /\ last_call.result
    /\ last_call.at = alert_cooldown_minutes

\* recent_alerts of a deduplicator that took the same calls and no cleanup
NeverCleaned ==
    [k \in DOMAIN noncrit_at \cup DOMAIN crit_at |->
        CHOOSE s \in Stamps(k) : \A o \in Stamps(k) : o <= s]

(* C37: whatever cleanups (of at least cooldown_minutes) were made, every  *)
(* should_alert call made now or later returns what it returns on a        *)
(* deduplicator that took the same calls and was never cleaned.            *)
C37_CleanupKeepsResults ==
    \A f \in DedupFeeds, ft \in DedupTypes, s \in DedupSeverities,
       t \in now..(now + alert_cooldown_minutes) :
        ShouldAlert(recent_alerts, alert_counts, DedupKey(f, ft), s, t).result
            = ShouldAlert(NeverCleaned, alert_counts, DedupKey(f, ft), s, t).result

\* a cleanup has dropped a key and a call was made after it
C37_Witness ==
    /\ ncalls > 0
    /\ DOMAIN NeverCleaned # DOMAIN recent_alerts
    /\ last_call.at >= MinutesPerHour
    /\ last_call.key \in DOMAIN recent_alerts

----------------------------------------------------------------------------
(* Claims about the two topics and the breaker, checked on the pipeline *)

(* C33: alerts_generated never holds two non-CRITICAL alerts for the same  *)
(* (feed_name, fraud_type) created less than cooldown_minutes apart,       *)
(* whichever of the two topics they came from.                             *)
C33_GeneratedPassedCooldown ==
    \A a, b \in DOMAIN alerts_generated :
        (/\ a < b
         /\ alerts_generated[a].feed_name = alerts_generated[b].feed_name
         /\ alerts_generated[a].fraud_type = alerts_generated[b].fraud_type
         /\ alerts_generated[a].severity # CRITICAL
         /\ alerts_generated[b].severity # CRITICAL)
        => alerts_generated[b].timestamp - alerts_generated[a].timestamp
               >= alert_cooldown_minutes

(* C34: a price:update for a feed whose circuit breaker is active leaves   *)
(* the rolling price, volume and timestamp histories, the deduplicator,    *)
(* alerts_generated and circuit_breaker_active as they were, and nothing   *)
(* of it is left to process.                                               *)
C34_SkippedEventChangesNothing ==
    [][\A f \in circuit_breaker_active :
          TakesPriceUpdate(f) =>
             /\ UNCHANGED <<price_buffer, volume_buffer, timestamp_buffer,
                            recent_alerts, alert_counts, alerts_generated,
                            circuit_breaker_active>>
             /\ pending' = <<>>]_vars

\* three price:update messages of one feed, the second taken while its
\* breaker was active: after the deactivation the history holds two readings
C34_Witness ==
    /\ nmsgs = 3
    /\ Deactivations = 1
    /\ last_msg.channel = PRICE_UPDATE
    /\ ~last_msg.skipped
    /\ detect_calls[last_msg.feed_name] = 2
    /\ Len(price_buffer[last_msg.feed_name]) = 2
    /\ Len(timestamp_buffer[last_msg.feed_name]) = 2
    /\ \A f \in Feeds \ {last_msg.feed_name} : detect_calls[f] = 0
    /\ \A i \in DOMAIN alerts_generated :
          alerts_generated[i].fraud_type # ORACLE_SPOOFING

(* C35: every anomaly:detected message yields exactly one alert, of type   *)
(* ORACLE_SPOOFING and severity HIGH, for its feed, and handling it leaves *)
(* circuit_breaker_active, the deduplicator and the rolling histories as   *)
(* they were, whatever its score.                                          *)
C35_ExternalAnomalyAlwaysAlerts ==
    [][(nmsgs' = nmsgs + 1 /\ last_msg'.channel = ANOMALY_DETECTED) =>
          /\ Len(alerts_generated') = Len(alerts_generated) + 1
          /\ SubSeq(alerts_generated', 1, Len(alerts_generated)) = alerts_generated
          /\ LET alert == alerts_generated'[Len(alerts_generated')]
             IN  /\ alert.fraud_type = ORACLE_SPOOFING
                 /\ alert.severity = HIGH
                 /\ alert.feed_name = last_msg'.feed_name
          /\ UNCHANGED <<circuit_breaker_active, published, recent_alerts,
                         alert_counts, price_buffer, volume_buffer,
                         timestamp_buffer>>]_vars

\* two anomaly:detected messages in a row for a feed whose breaker is
\* active, with a score above circuit_break_threshold: two alerts at once
C35_Witness ==
    /\ nmsgs = 3
    /\ last_msg.channel = ANOMALY_DETECTED
    /\ last_msg.feed_name \in circuit_breaker_active
    /\ \E a, b \in DOMAIN alerts_generated :
          /\ a < b
          /\ alerts_generated[a].fraud_type = ORACLE_SPOOFING
          /\ alerts_generated[b].fraud_type = ORACLE_SPOOFING
          /\ alerts_generated[a].feed_name = last_msg.feed_name
          /\ alerts_generated[b].feed_name = last_msg.feed_name
          /\ alerts_generated[a].timestamp = alerts_generated[b].timestamp
          /\ RatGT(alerts_generated[b].anomaly_score, circuit_break_threshold)

(* C38: whenever a feed is added to circuit_breaker_active, the alert      *)
(* whose id the circuit_breaker:activated event carries is in              *)
(* alerts_generated, and its store write and its notifications have been   *)
(* attempted, also when the publish of the event fails.                    *)
C38_AlertBeforeBreaker ==
    [][\A f \in Feeds :
          (f \notin circuit_breaker_active /\ f \in circuit_breaker_active') =>
             LET e == published'[Len(published')]
             IN  /\ \E a \in DOMAIN alerts_generated' :
                       /\ alerts_generated'[a].id = e.alert_id
                       /\ alerts_generated'[a].timestamp <= e.timestamp
                 /\ last_store' # NoCall
                 /\ notified'
                 /\ attempts' # <<>>
                 /\ \A i \in DOMAIN attempts' : attempts'[i].alert_id = e.alert_id]_vars

\* a breaker was tripped by an alert that is out, although the publish of
\* the event failed
C38_Witness ==
    /\ Len(published) = 1
    /\ published[1].topic = ACTIVATED
    /\ ~published[1].delivered
    /\ published[1].feed_name \in circuit_breaker_active
    /\ alerts_generated # <<>>
    /\ alerts_generated[Len(alerts_generated)].id = published[1].alert_id
    /\ attempts[1].alert_id = published[1].alert_id

(* C39: when the publish of circuit_breaker:activated fails the feed is in *)
(* circuit_breaker_active all the same, the rest of the event is given up  *)
(* and the pipeline stays running; when the publish of                     *)
(* circuit_breaker:deactivated fails the feed is out of the set.           *)
C39_FailedPublishKeepsTransition ==
    [][(Len(published') = Len(published) + 1
        /\ ~published'[Len(published')].delivered) =>
          LET e == published'[Len(published')]
          IN  /\ e.topic = ACTIVATED =>
                    /\ e.feed_name \in circuit_breaker_active'
                    /\ pending' = <<>>
                    /\ is_running'
              /\ e.topic = DEACTIVATED =>
                    e.feed_name \notin circuit_breaker_active']_vars

\* the publish of an activation failed, and the next price:update of the
\* feed was taken and skipped
C39_Witness ==
    /\ nmsgs = 2
    /\ Len(published) = 1
    /\ published[1].topic = ACTIVATED
    /\ ~published[1].delivered
    /\ last_msg.channel = PRICE_UPDATE
    /\ last_msg.feed_name = published[1].feed_name
    /\ last_msg.skipped

(* C40: the pipeline's detector has no scorer: no price:update yields an   *)
(* ORACLE_SPOOFING detection, however long the feed's history, and every   *)
(* ORACLE_SPOOFING alert appended to alerts_generated comes from an        *)
(* anomaly:detected message.                                               *)
C40_NoScorerInPipeline ==
    [][/\ model' = None
       /\ (nmsgs' = nmsgs + 1 /\ last_msg'.channel = PRICE_UPDATE) =>
             \A i \in DOMAIN pending' : pending'[i].fraud_type # ORACLE_SPOOFING
       /\ (/\ Len(alerts_generated') = Len(alerts_generated) + 1
           /\ alerts_generated'[Len(alerts_generated')].fraud_type = ORACLE_SPOOFING)
          => (nmsgs' = nmsgs + 1 /\ last_msg'.channel = ANOMALY_DETECTED)]_vars

\* a price:update was evaluated on a history of 50 readings or more and
\* gave an alert, and an ORACLE_SPOOFING alert is out as well
C40_Witness ==
    /\ nmsgs >= 2
    /\ last_msg.channel = PRICE_UPDATE
    /\ ~last_msg.skipped
    /\ last_msg.feed_name = DetectFeed
    /\ Len(price_buffer[DetectFeed]) >= MlMinPoints
    /\ \E i \in DOMAIN alerts_generated :
          alerts_generated[i].fraud_type = ORACLE_SPOOFING
    /\ \E i \in DOMAIN alerts_generated :
          alerts_generated[i].fraud_type # ORACLE_SPOOFING

====
